---- MODULE Spec2Model ----
(***************************************************************************)
(* The ingestion job queue of ingestion/worker.py: the ingestion_jobs      *)
(* table with its dedup upsert (enqueue_job), the seed command             *)
(* (enqueue_seed_jobs), the worker loop (IngestionWorker.run) with its     *)
(* claim transaction (_claim_job), the job handlers' effect on the queue   *)
(* and on the players / monthly_archives tables they read back, and the    *)
(* completion updates (_mark_job_success, _mark_job_failure).              *)
(*                                                                         *)
(* The tables no code path reads back (player_ingestion_state, games,      *)
(* fetch_log) are written by the handlers taken one committed statement at *)
(* a time (the handler steps further down); process_job gives a whole      *)
(* handler run's effect on the tables the code reads, for the              *)
(* specifications about the queue, in which the write-only tables are not  *)
(* observed.                                                               *)
(*                                                                         *)
(* A row id is the row's position in the table (a serial key; rows are     *)
(* never deleted).  SQL NULL and Python None are 0 for ids and NoError for *)
(* the error column.  Columns no code path reads back (locked_at,          *)
(* completed_at, created/updated timestamps) are not part of the state.    *)
(***************************************************************************)
EXTENDS Integers, Sequences, FiniteSets, TLC

VARIABLES
    jobs,       \* table ingestion_jobs: a sequence of rows, id = index
    players,    \* table players: a sequence of rows, id = index
    archives,   \* table monthly_archives: a sequence of rows, id = index
    now,        \* the clock read by utc_now_seconds() and SQL NOW()
    pc,         \* pc[w]: where worker w stands in IngestionWorker.run
    job,        \* job[w]: id of the row w selected / claimed (0: none)
    raised,     \* raised[w]: the exception the handler of w raised
    calls,      \* number of enqueue commands issued so far
    claims,     \* number of claim transactions that selected a row so far
    last,       \* the operation performed by the latest step
    ingestion,  \* table player_ingestion_state: player id -> row
    games,      \* table games: a sequence of rows, id = index
    fetch_log,  \* table fetch_log: a sequence of rows, id = index
    h           \* h[w]: the local variables of the handler w is running

vars == <<jobs, players, archives, now, pc, job, raised, calls, claims, last,
          ingestion, games, fetch_log, h>>

\* The write-only tables and the handler locals.
side == <<ingestion, games, fetch_log, h>>

(***************************************************************************)
(* Bounds of the model.                                                    *)
(***************************************************************************)
\* At most this many claim transactions select a row.
MaxClaims == 3
\* At most this many enqueue commands (seed or direct enqueue_job calls).
MaxCalls == 2
\* At most this many claim transactions in the specification StoreSpec.
MaxStoreClaims == 2
\* At most this many claim transactions select a row in CascadeSpec.
MaxCascadeClaims == 5

Workers == {"w1", "w2"}

Min(a, b) == IF a <= b THEN a ELSE b
Max(a, b) == IF a >= b THEN a ELSE b

(***************************************************************************)
(* Program constants.                                                      *)
(***************************************************************************)
\* enqueue_job's default for max_attempts.
DEFAULT_MAX_ATTEMPTS == 5
MAX_ARCHIVE_JOB_PRIORITY == 5
ARCHIVE_MONTH_LIMIT == 12
\* _mark_job_failure's fixed backoff, in seconds.
retry_delay == 300

(***************************************************************************)
(* Strings.  A username is an atom; lower_username maps the display casing *)
(* to the lowercase form.  An error message is its text and its length, so *)
(* that error[:500] is a real cut.                                         *)
(***************************************************************************)
lower_username(username) ==
    CASE username = "Alice" -> "alice"
      [] username = "Bob" -> "bob"
      [] username = "Carol" -> "carol"
      [] OTHER -> username

NoError == [text |-> "", len |-> 0]

\* error[:500]: the text cut to its first 500 characters.

Truncate(error) ==
    IF error.len <= 500
    THEN error
    ELSE [text |-> error.text \o "[:500]", len |-> 500]

(***************************************************************************)
(* The upstream API, as the handlers see it.                               *)
(***************************************************************************)
\* /player/{username}: the profile document of a lowercase username.
UpstreamProfile(username) ==
    CASE username = "alice" -> [player_id |-> 42, username |-> "Alice"]
      [] username = "carol" -> [player_id |-> 99, username |-> "Carol"]
      [] OTHER -> [player_id |-> 77, username |-> "Bob"]

\* The month segments of archive URLs.
MonthNames ==
    <<"01", "02", "03", "04", "05", "06", "07", "08", "09", "10", "11", "12">>

\* /player/{username}/games/archives: URLs, as their path segments.  bob's
\* list holds a URL that does not parse; carol's holds thirteen months,
\* oldest first.
UpstreamArchives(username) ==
    CASE username = "bob" ->
           << <<"player", username, "games", "2024", "01">>,
              <<"player", username, "games", "2024", "xx">>,
              <<"player", username, "games", "2024", "02">> >>
      [] username = "carol" ->
           [n \in 1..12 |-> <<"player", username, "games", "2023", MonthNames[n]>>]
              \o << <<"player", username, "games", "2024", "01">> >>
      [] OTHER -> << <<"player", username, "games", "2024", "01">> >>

\* int() of a path segment; -1 stands for ValueError.
ParseInt(s) ==
    CASE s = "2024" -> 2024
      [] s = "2023" -> 2023
      [] \E n \in 1..12 : MonthNames[n] = s ->
           CHOOSE n \in 1..12 : MonthNames[n] = s
      [] OTHER -> -1

\* str(exc) of the exceptions a handler run may end in: the ValueError of
\* a fetch wrapper on a non-200 answer, and a long message (a database
\* error quoting its statement).
HttpError == [text |-> "fetch failed: HTTP 500", len |-> 40]
NotFound == [text |-> "fetch failed: HTTP 404", len |-> 40]
LongError == [text |-> "DatabaseError", len |-> 900]
Errors == {HttpError, LongError}

(***************************************************************************)
(* Job store: dedup key and enqueue.                                       *)
(***************************************************************************)
\* A key made of the job type and the scope alone.
BuildDedupeKeyScopeOnly(job_type, player_id, scope) ==
    <<job_type, [player_id |-> 0, scope |-> scope]>>

\* job_type ":" sha1(json.dumps({player_id, scope}, sort_keys=True)): the
\* fingerprint is one-to-one on the documents of the model.
build_dedupe_key(job_type, player_id, scope) ==
    <<job_type, [player_id |-> player_id, scope |-> scope]>>

\* A unique index that covered queued rows only.
ConflictRowQueuedOnly(js, key) ==
    IF \E i \in 1..Len(js) : js[i].dedupe_key = key /\ js[i].status = "queued"
    THEN CHOOSE i \in 1..Len(js) : js[i].dedupe_key = key /\ js[i].status = "queued"
    ELSE 0

\* The row ON CONFLICT (dedupe_key) finds: the unique index covers every
\* row, whatever its status.  0: no conflict.
ConflictRow(js, key) ==
    IF \E i \in 1..Len(js) : js[i].dedupe_key = key
    THEN CHOOSE i \in 1..Len(js) : js[i].dedupe_key = key
    ELSE 0

\* A CASE without its WHEN branch.
ConflictStatusRevive(status) == "queued"

\* A CASE that also kept 'failed'.
ConflictStatusKeepFailed(status) ==
    IF status \in {"succeeded", "cancelled", "failed"} THEN status ELSE "queued"

\* status = CASE WHEN status IN ('succeeded','cancelled') THEN status
\*          ELSE 'queued' END
ConflictStatus(status) ==
    IF status \in {"succeeded", "cancelled"} THEN status ELSE "queued"

\* A DO UPDATE that took the proposed values without LEAST / GREATEST.
OnConflictOverwrite(row, excluded) ==
    [row EXCEPT !.status = ConflictStatus(row.status),
                !.priority = excluded.priority,
                !.available_at = excluded.available_at,
                !.max_attempts = excluded.max_attempts]

\* A DO UPDATE that took the proposed available_at without LEAST.
OnConflictRefresh(row, excluded) ==
    [row EXCEPT !.status = ConflictStatus(row.status),
                !.priority = Min(row.priority, excluded.priority),
                !.available_at = excluded.available_at,
                !.max_attempts = Max(row.max_attempts, excluded.max_attempts)]

\* DO UPDATE SET ...: the existing row merged with the proposed one.
OnConflictUpdate(row, excluded) ==
    [row EXCEPT !.status = ConflictStatus(row.status),
                !.priority = Min(row.priority, excluded.priority),
                !.available_at = Min(row.available_at, excluded.available_at),
                !.max_attempts = Max(row.max_attempts, excluded.max_attempts)]

\* available_at = utc_now_seconds() + max(delay_seconds, 0)
AvailableAt(t, delay_seconds) == t + Max(delay_seconds, 0)

\* A row of ingestion_jobs as INSERT ... VALUES writes it.  The columns
\* locked_at and completed_at, which the claim and _mark_job_success stamp
\* and no statement reads, are not kept.
NewRow(job_type, player_id, scope, priority, max_attempts, available_at) ==
    [job_type |-> job_type, player_id |-> player_id, scope |-> scope,
     dedupe_key |-> build_dedupe_key(job_type, player_id, scope),
     status |-> "queued", priority |-> priority, attempts |-> 0,
     max_attempts |-> max_attempts, available_at |-> available_at,
     error |-> NoError]

\* enqueue_job: the table after the upsert, at clock t.
enqueue_job(js, t, job_type, player_id, scope, priority, delay_seconds, max_attempts) ==
    LET available_at == AvailableAt(t, delay_seconds)
        excluded == NewRow(job_type, player_id, scope, priority,
                           max_attempts, available_at)
        hit == ConflictRow(js, excluded.dedupe_key)
    IN  IF hit = 0
        THEN Append(js, excluded)
        ELSE [js EXCEPT ![hit] = OnConflictUpdate(js[hit], excluded)]

\* The id enqueue_job returns (RETURNING id).
enqueue_job_id(js, job_type, player_id, scope) ==
    LET hit == ConflictRow(js, build_dedupe_key(job_type, player_id, scope))
    IN  IF hit = 0 THEN Len(js) + 1 ELSE hit

\* A seed whose three jobs are all available at once.
SeedNoDelay(js, t, username) ==
    LET u == lower_username(username)
        s == [username |-> u]
        j1 == enqueue_job(js, t, "profile", 0, s, 1, 0, DEFAULT_MAX_ATTEMPTS)
        j2 == enqueue_job(j1, t, "stats", 0, s, 2, 0, DEFAULT_MAX_ATTEMPTS)
    IN  enqueue_job(j2, t, "archives", 0, s, 3, 0, DEFAULT_MAX_ATTEMPTS)

\* enqueue_seed_jobs: three enqueue_job calls, in order.
enqueue_seed_jobs(js, t, username) ==
    LET u == lower_username(username)
        s == [username |-> u]
        j1 == enqueue_job(js, t, "profile", 0, s, 1, 0, DEFAULT_MAX_ATTEMPTS)
        j2 == enqueue_job(j1, t, "stats", 0, s, 2, 15, DEFAULT_MAX_ATTEMPTS)
    IN  enqueue_job(j2, t, "archives", 0, s, 3, 30, DEFAULT_MAX_ATTEMPTS)

(***************************************************************************)
(* Entity upserts the handlers call and read back.                         *)
(***************************************************************************)
\* SELECT id FROM players WHERE username = lower(username); 0: no row.
fetch_player_id_by_username(ps, username) ==
    LET u == lower_username(username)
    IN  IF \E i \in 1..Len(ps) : ps[i].username = u
        THEN CHOOSE i \in 1..Len(ps) : ps[i].username = u
        ELSE 0

\* The players row ON CONFLICT (chesscom_player_id) finds; 0: none.
PlayerRow(ps, profile) ==
    IF \E i \in 1..Len(ps) : ps[i].chesscom_player_id = profile.player_id
    THEN CHOOSE i \in 1..Len(ps) : ps[i].chesscom_player_id = profile.player_id
    ELSE 0

\* A plain INSERT, without the conflict clause.
UpsertPlayerAppend(ps, profile) ==
    Append(ps, [chesscom_player_id |-> profile.player_id,
                username |-> lower_username(profile.username),
                display_username |-> profile.username])

\* A plain INSERT of the month, without the conflict clause.
UpsertArchiveAppend(ar, player_id, year, month, url) ==
    Append(ar, [player_id |-> player_id, year |-> year, month |-> month,
                url |-> url, fetch_status |-> "pending", retry_count |-> 0,
                priority |-> MAX_ARCHIVE_JOB_PRIORITY])

\* upsert_player: the table after the upsert, and the id it returns.
upsert_player(ps, profile) ==
    LET hit == PlayerRow(ps, profile)
        row == [chesscom_player_id |-> profile.player_id,
                username |-> lower_username(profile.username),
                display_username |-> profile.username]
    IN  IF hit = 0 THEN Append(ps, row) ELSE [ps EXCEPT ![hit] = row]

upsert_player_id(ps, profile) ==
    LET hit == PlayerRow(ps, profile)
    IN  IF hit = 0 THEN Len(ps) + 1 ELSE hit

\* The monthly_archives row of (player_id, year, month); 0: none.
ArchiveRow(ar, player_id, year, month) ==
    IF \E i \in 1..Len(ar) :
          ar[i].player_id = player_id /\ ar[i].year = year /\ ar[i].month = month
    THEN CHOOSE i \in 1..Len(ar) :
          ar[i].player_id = player_id /\ ar[i].year = year /\ ar[i].month = month
    ELSE 0

\* An upsert whose conflict branch puts every row back to pending with a
\* retry count of 0, whatever its fetch status was.
UpsertArchiveResets(ar, player_id, year, month, url) ==
    LET hit == ArchiveRow(ar, player_id, year, month)
    IN  IF hit = 0
        THEN Append(ar, [player_id |-> player_id, year |-> year, month |-> month,
                         url |-> url, fetch_status |-> "pending",
                         retry_count |-> 0,
                         priority |-> MAX_ARCHIVE_JOB_PRIORITY])
        ELSE [ar EXCEPT ![hit] =
                [@ EXCEPT !.url = url,
                          !.fetch_status = "pending",
                          !.retry_count = 0,
                          !.priority = Min(@, MAX_ARCHIVE_JOB_PRIORITY)]]

\* upsert_monthly_archive: the table after the upsert; the inserted flag
\* (xmax = 0) is ArchiveRow(...) = 0 before it.
upsert_monthly_archive(ar, player_id, year, month, url) ==
    LET hit == ArchiveRow(ar, player_id, year, month)
    IN  IF hit = 0
        THEN Append(ar, [player_id |-> player_id, year |-> year, month |-> month,
                         url |-> url, fetch_status |-> "pending",
                         retry_count |-> 0,
                         priority |-> MAX_ARCHIVE_JOB_PRIORITY])
        ELSE [ar EXCEPT ![hit] =
                [@ EXCEPT !.url = url,
                          !.fetch_status =
                              IF @ = "succeeded" THEN @ ELSE "pending",
                          !.retry_count =
                              IF ar[hit].fetch_status = "succeeded" THEN @ ELSE 0,
                          !.priority = Min(@, MAX_ARCHIVE_JOB_PRIORITY)]]

\* enqueue_archive_job: one games job for a month.
archive_scope(username, archive_url, year, month) ==
    [username |-> username, archive_url |-> archive_url,
     year |-> year, month |-> month]

enqueue_archive_job(js, t, player_id, username, archive_url, year, month) ==
    enqueue_job(js, t, "games", player_id,
                archive_scope(username, archive_url, year, month),
                MAX_ARCHIVE_JOB_PRIORITY, 0, DEFAULT_MAX_ATTEMPTS)

(***************************************************************************)
(* Job handlers (IngestionWorker._process_*_job).  A handler run maps the  *)
(* database db = [jobs, players, archives] at clock t to the database it   *)
(* leaves and the exception it raises (NoError: it returns).               *)
(***************************************************************************)
ScopeError == [text |-> "Job missing username", len |-> 20]
GamesScopeError == [text |-> "Games job missing archive scope", len |-> 31]
ArchiveMissing == [text |-> "Archive row missing locally", len |-> 27]

\* _current_username: "" stands for the ValueError it raises.
current_username(ps, row) ==
    IF "username" \in DOMAIN row.scope /\ row.scope.username # ""
    THEN lower_username(row.scope.username)
    ELSE IF row.player_id # 0 /\ row.player_id <= Len(ps)
         THEN ps[row.player_id].username
         ELSE ""

\* job.get("player_id") or fetch_player_id_by_username(username); when both
\* are empty the handler fetches the profile and upserts the player.
ResolvePlayers(ps, row, username) ==
    IF row.player_id # 0 \/ fetch_player_id_by_username(ps, username) # 0
    THEN ps
    ELSE upsert_player(ps, UpstreamProfile(username))

ResolvePlayerId(ps, row, username) ==
    IF row.player_id # 0 THEN row.player_id
    ELSE IF fetch_player_id_by_username(ps, username) # 0
         THEN fetch_player_id_by_username(ps, username)
         ELSE upsert_player_id(ps, UpstreamProfile(username))

\* A profile handler that passed the job's own player_id on, unresolved.
ProfileChildrenUnresolved(db, t, row) ==
    LET username == current_username(db.players, row)
        profile == UpstreamProfile(username)
        j1 == enqueue_job(db.jobs, t, "stats", row.player_id,
                          [username |-> username], 2, 0, DEFAULT_MAX_ATTEMPTS)
        j2 == enqueue_job(j1, t, "archives", row.player_id,
                          [username |-> username], 3, 0, DEFAULT_MAX_ATTEMPTS)
    IN  IF username = ""
        THEN [db EXCEPT !.exc = ScopeError]
        ELSE [db EXCEPT !.players = upsert_player(db.players, profile),
                        !.jobs = j2]

\* _process_profile_job: upsert the player, enqueue stats and archives.
process_profile_job(db, t, row) ==
    LET username == current_username(db.players, row)
        profile == UpstreamProfile(username)
        player_id == upsert_player_id(db.players, profile)
        child_player == IF row.player_id # 0 THEN row.player_id ELSE player_id
        j1 == enqueue_job(db.jobs, t, "stats", child_player,
                          [username |-> username], 2, 0, DEFAULT_MAX_ATTEMPTS)
        j2 == enqueue_job(j1, t, "archives", child_player,
                          [username |-> username], 3, 0, DEFAULT_MAX_ATTEMPTS)
    IN  IF username = ""
        THEN [db EXCEPT !.exc = ScopeError]
        ELSE [db EXCEPT !.players = upsert_player(db.players, profile),
                        !.jobs = j2]

\* A stats handler that enqueued a profile job in its turn.
StatsEnqueuesProfile(db, t, row) ==
    LET username == current_username(db.players, row)
    IN  IF username = ""
        THEN [db EXCEPT !.exc = ScopeError]
        ELSE [db EXCEPT !.players = ResolvePlayers(db.players, row, username),
                        !.jobs = enqueue_job(@, t, "profile", 0,
                                             [username |-> username], 1, 0,
                                             DEFAULT_MAX_ATTEMPTS)]

\* _process_stats_job: resolve the player (upserting it when unknown) and
\* store the stats.
process_stats_job(db, t, row) ==
    LET username == current_username(db.players, row)
    IN  IF username = ""
        THEN [db EXCEPT !.exc = ScopeError]
        ELSE [db EXCEPT !.players = ResolvePlayers(db.players, row, username)]

\* A limit that kept the oldest months.
LimitArchivesOldest(urls) ==
    IF ARCHIVE_MONTH_LIMIT > 0 /\ Len(urls) > ARCHIVE_MONTH_LIMIT
    THEN SubSeq(urls, 1, ARCHIVE_MONTH_LIMIT)
    ELSE urls

\* archives[-ARCHIVE_MONTH_LIMIT:] when the limit is set and exceeded.
LimitArchives(urls) ==
    IF ARCHIVE_MONTH_LIMIT > 0 /\ Len(urls) > ARCHIVE_MONTH_LIMIT
    THEN SubSeq(urls, Len(urls) - ARCHIVE_MONTH_LIMIT + 1, Len(urls))
    ELSE urls

\* year and month of an archive URL: the ints of its last two segments;
\* -1 when the path does not parse (the URL is skipped).
ArchiveYear(url) == IF Len(url) < 2 THEN -1 ELSE ParseInt(url[Len(url) - 1])
ArchiveMonth(url) == IF Len(url) < 2 THEN -1 ELSE ParseInt(url[Len(url)])

\* The loop over the archive URLs: upsert each month and enqueue a games
\* job for each month the upsert inserted.
RECURSIVE scan_archives(_, _, _, _, _)
scan_archives(db, t, player_id, username, urls) ==
    IF urls = <<>>
    THEN db
    ELSE LET archive_url == Head(urls)
             year == ArchiveYear(archive_url)
             month == ArchiveMonth(archive_url)
             inserted == ArchiveRow(db.archives, player_id, year, month) = 0
         IN  IF year < 0 \/ month < 0
             THEN scan_archives(db, t, player_id, username, Tail(urls))
             ELSE scan_archives(
                    [db EXCEPT
                       !.archives = upsert_monthly_archive(
                                       @, player_id, year, month, archive_url),
                       !.jobs = IF inserted
                                THEN enqueue_archive_job(@, t, player_id, username,
                                                         archive_url, year, month)
                                ELSE @],
                    t, player_id, username, Tail(urls))

process_archives_job(db, t, row) ==
    LET username == current_username(db.players, row)
        urls == LimitArchives(UpstreamArchives(username))
        ps == ResolvePlayers(db.players, row, username)
        player_id == ResolvePlayerId(db.players, row, username)
    IN  IF username = ""
        THEN [db EXCEPT !.exc = ScopeError]
        ELSE scan_archives([db EXCEPT !.players = ps], t, player_id, username, urls)

process_games_job(db, t, row) ==
    LET username == current_username(db.players, row)
        scope == row.scope
        complete == /\ {"archive_url", "year", "month"} \subseteq DOMAIN scope
        ps == ResolvePlayers(db.players, row, username)
        player_id == ResolvePlayerId(db.players, row, username)
        hit == ArchiveRow(db.archives, player_id, scope.year, scope.month)
    IN  IF username = ""
        THEN [db EXCEPT !.exc = ScopeError]
        ELSE IF ~complete
        THEN [db EXCEPT !.exc = GamesScopeError]
        ELSE IF hit = 0
        THEN [db EXCEPT !.players = ps, !.exc = ArchiveMissing]
        ELSE [db EXCEPT !.players = ps,
                        !.archives[hit].fetch_status = "succeeded",
                        !.archives[hit].retry_count = 0]

\* _process_job: dispatch on job_type.
process_job(db, t, row) ==
    CASE row.job_type = "profile" -> process_profile_job(db, t, row)
      [] row.job_type = "stats" -> process_stats_job(db, t, row)
      [] row.job_type = "archives" -> process_archives_job(db, t, row)
      [] row.job_type = "games" -> process_games_job(db, t, row)
      [] OTHER -> [db EXCEPT !.exc =
                     [text |-> "Unsupported job type", len |-> 20]]

(***************************************************************************)
(* Job store: claim, complete, fail.                                       *)
(***************************************************************************)
\* Rows on which a claim transaction holds its FOR UPDATE row lock: the
\* transaction has selected the row and not yet updated and committed.
RowLocked == {job[w] : w \in {v \in DOMAIN pc : pc[v] = "selected"}}

\* WHERE status = 'queued' AND available_at <= NOW(): the rows a claim
\* query without SKIP LOCKED would look at.
VisibleNoSkip(js, t, locked) ==
    {i \in 1..Len(js) : js[i].status = "queued" /\ js[i].available_at <= t}

\* The same with SKIP LOCKED: rows locked by other transactions left out.
Visible(js, t, locked) ==
    {i \in 1..Len(js) : js[i].status = "queued" /\ js[i].available_at <= t}
        \ locked

\* ORDER BY id ASC LIMIT 1.
FirstById(js, S) ==
    CHOOSE i \in S : \A k \in S : i <= k

\* ORDER BY priority ASC, id ASC LIMIT 1, over a non-empty set of rows.
FirstByPriority(js, S) ==
    CHOOSE i \in S : \A k \in S :
        \/ js[i].priority < js[k].priority
        \/ js[i].priority = js[k].priority /\ i <= k

\* An UPDATE that counted the attempt and left the status as it was.
LockRowKeepsQueued(row) ==
    [row EXCEPT !.attempts = @ + 1]

\* UPDATE ... SET status = 'locked', attempts = attempts + 1 WHERE id = ...
LockRow(row) ==
    [row EXCEPT !.status = "locked", !.attempts = @ + 1]

\* _mark_job_success: UPDATE ... SET status = 'succeeded' WHERE id = ...
mark_job_success(js, job_id) ==
    [js EXCEPT ![job_id].status = "succeeded"]

\* A CASE on attempts > max_attempts.
FailRowOffByOne(row, t, error) ==
    IF row.attempts > row.max_attempts
    THEN [row EXCEPT !.status = "failed", !.error = Truncate(error)]
    ELSE [row EXCEPT !.status = "queued", !.available_at = t + retry_delay,
                     !.error = Truncate(error)]

\* A retry without the delay.
FailRowNoBackoff(row, t, error) ==
    IF row.attempts >= row.max_attempts
    THEN [row EXCEPT !.status = "failed", !.error = Truncate(error)]
    ELSE [row EXCEPT !.status = "queued", !.error = Truncate(error)]

\* _mark_job_failure: the CASE on attempts >= max_attempts, at clock t.
FailRow(row, t, error) ==
    IF row.attempts >= row.max_attempts
    THEN [row EXCEPT !.status = "failed", !.error = Truncate(error)]
    ELSE [row EXCEPT !.status = "queued", !.available_at = t + retry_delay,
                     !.error = Truncate(error)]

\* An UPDATE that stored the error and left status and available_at as
\* they were.
MarkFailureRecordsOnly(js, t, job_id, error) ==
    [js EXCEPT ![job_id].error = Truncate(error)]

mark_job_failure(js, t, job_id, error) ==
    [js EXCEPT ![job_id] = FailRow(@, t, error)]

(***************************************************************************)
(* The state machine.                                                      *)
(***************************************************************************)
NoOp == [op |-> "none", who |-> "", id |-> 0]

\* No handler running.
NoHandler == [step |-> "none"]

\* The write-only tables are empty and no handler runs.
SideInit ==
    /\ ingestion = <<>>
    /\ games = <<>>
    /\ fetch_log = <<>>
    /\ h = [w \in Workers |-> NoHandler]

Init ==
    /\ jobs = <<>>
    /\ players = <<>>
    /\ archives = <<>>
    /\ now = 0
    /\ pc = [w \in Workers |-> "idle"]
    /\ job = [w \in Workers |-> 0]
    /\ raised = [w \in Workers |-> NoError]
    /\ calls = 0
    /\ claims = 0
    /\ last = NoOp
    /\ SideInit

\* An upsert on one of these dedup keys has to wait for a claim transaction
\* that holds the row locked.
EnqueueWaits(keys) ==
    \E i \in RowLocked : jobs[i].dedupe_key \in keys

SeedUsernames == {"alice", "Alice"}

SeedKeys(username) ==
    {build_dedupe_key(k, 0, [username |-> lower_username(username)]) :
        k \in {"profile", "stats", "archives"}}

\* The command `enqueue --username u`.
Seed(username) ==
    /\ calls < MaxCalls
    /\ ~EnqueueWaits(SeedKeys(username))
    /\ jobs' = enqueue_seed_jobs(jobs, now, username)
    /\ calls' = calls + 1
    /\ last' = [op |-> "seed", who |-> lower_username(username), id |-> 0]
    /\ UNCHANGED <<players, archives, now, pc, job, raised, claims>>
    /\ UNCHANGED side

\* A direct call of enqueue_job.
Enqueue(job_type, player_id, scope, priority, delay_seconds, max_attempts) ==
    /\ calls < MaxCalls
    /\ ~EnqueueWaits({build_dedupe_key(job_type, player_id, scope)})
    /\ jobs' = enqueue_job(jobs, now, job_type, player_id, scope, priority,
                           delay_seconds, max_attempts)
    /\ calls' = calls + 1
    /\ last' = [op |-> "enqueue",
                who |-> IF enqueue_job_id(jobs, job_type, player_id, scope)
                              <= Len(jobs)
                        THEN "conflict" ELSE "insert",
                id |-> enqueue_job_id(jobs, job_type, player_id, scope)]
    /\ UNCHANGED <<players, archives, now, pc, job, raised, claims>>
    /\ UNCHANGED side

\* _claim_job, first statement: the SELECT returns no row; the worker
\* sleeps poll_interval and tries again.
ClaimNone(w) ==
    /\ pc[w] = "idle"
    /\ Visible(jobs, now, RowLocked) = {}
    /\ last' = [op |-> "claim_none", who |-> w, id |-> 0]
    /\ UNCHANGED <<jobs, players, archives, now, pc, job, raised, calls, claims>>
    /\ UNCHANGED side

\* _claim_job, first statement: the SELECT returns a row and locks it.
ClaimSelect(w) ==
    /\ pc[w] = "idle"
    /\ claims' = claims + 1
    /\ Visible(jobs, now, RowLocked) # {}
    /\ LET id == FirstByPriority(jobs, Visible(jobs, now, RowLocked))
       IN  /\ job' = [job EXCEPT ![w] = id]
           /\ last' = [op |-> "select", who |-> w, id |-> id]
    /\ pc' = [pc EXCEPT ![w] = "selected"]
    /\ UNCHANGED <<jobs, players, archives, now, raised, calls>>
    /\ UNCHANGED side

\* _claim_job, second statement and commit: the row is locked and returned.
ClaimUpdate(w) ==
    /\ pc[w] = "selected"
    /\ jobs' = [jobs EXCEPT ![job[w]] = LockRow(@)]
    /\ pc' = [pc EXCEPT ![w] = "claimed"]
    /\ last' = [op |-> "claim", who |-> w, id |-> job[w]]
    /\ UNCHANGED <<players, archives, now, job, raised, calls, claims>>
    /\ UNCHANGED side

\* The dedup keys the handler of a row upserts.
HandlerKeys(row) ==
    LET username == current_username(players, row)
        player_id == ResolvePlayerId(players, row, username)
        urls == LimitArchives(UpstreamArchives(username))
    IN  CASE row.job_type = "profile" ->
               {build_dedupe_key(k, player_id, [username |-> username]) :
                   k \in {"stats", "archives"}}
          [] row.job_type = "archives" ->
               {build_dedupe_key("games", player_id,
                    archive_scope(username, urls[n], ArchiveYear(urls[n]),
                                  ArchiveMonth(urls[n]))) :
                   n \in {m \in 1..Len(urls) :
                            ArchiveRow(archives, player_id, ArchiveYear(urls[m]),
                                       ArchiveMonth(urls[m])) = 0}}
          [] OTHER -> {}

\* run: self._process_job(job) with the upstream answering HTTP 200.
ProcessJob(w) ==
    /\ pc[w] = "claimed"
    /\ ~EnqueueWaits(HandlerKeys(jobs[job[w]]))
    /\ LET db == [jobs |-> jobs, players |-> players, archives |-> archives,
                  exc |-> NoError]
           out == process_job(db, now, jobs[job[w]])
       IN  /\ jobs' = out.jobs
           /\ players' = out.players
           /\ archives' = out.archives
           /\ raised' = [raised EXCEPT ![w] = out.exc]
           /\ pc' = [pc EXCEPT ![w] = IF out.exc = NoError THEN "done" ELSE "raised"]
    /\ last' = [op |-> "process", who |-> w, id |-> job[w]]
    /\ UNCHANGED <<now, job, calls, claims>>
    /\ UNCHANGED side

\* run: self._process_job(job) raises at the handler's first fetch.
ProcessJobRaises(w, error) ==
    /\ pc[w] = "claimed"
    /\ raised' = [raised EXCEPT ![w] = error]
    /\ pc' = [pc EXCEPT ![w] = "raised"]
    /\ last' = [op |-> "raise", who |-> w, id |-> job[w]]
    /\ UNCHANGED <<jobs, players, archives, now, job, calls, claims>>
    /\ UNCHANGED side

\* run: self._mark_job_success(job["id"]).
MarkSuccess(w) ==
    /\ pc[w] = "done"
    /\ job[w] \notin RowLocked
    /\ jobs' = mark_job_success(jobs, job[w])
    /\ pc' = [pc EXCEPT ![w] = "idle"]
    /\ job' = [job EXCEPT ![w] = 0]
    /\ last' = [op |-> "success", who |-> w, id |-> job[w]]
    /\ UNCHANGED <<players, archives, now, raised, calls, claims>>
    /\ UNCHANGED side

\* run: self._mark_job_failure(job["id"], str(exc)).
MarkFailure(w) ==
    /\ pc[w] = "raised"
    /\ job[w] \notin RowLocked
    /\ jobs' = mark_job_failure(jobs, now, job[w], raised[w])
    /\ pc' = [pc EXCEPT ![w] = "idle"]
    /\ job' = [job EXCEPT ![w] = 0]
    /\ raised' = [raised EXCEPT ![w] = NoError]
    /\ last' = [op |-> "failure", who |-> w, id |-> job[w]]
    /\ UNCHANGED <<players, archives, now, calls, claims>>
    /\ UNCHANGED side

\* Time passes until the next instant at which a row becomes available.
Tick ==
    /\ \E i \in 1..Len(jobs) :
          /\ jobs[i].available_at > now
          /\ now' = jobs[i].available_at
    /\ UNCHANGED <<jobs, players, archives, pc, job, raised, calls, last, claims>>
    /\ UNCHANGED side

Next ==
    \/ \E username \in SeedUsernames : Seed(username)
    \/ \E w \in Workers : ClaimNone(w)
    \/ \E w \in Workers : claims < MaxClaims /\ ClaimSelect(w)
    \/ \E w \in Workers : ClaimUpdate(w)
    \/ \E w \in Workers : ProcessJob(w)
    \/ \E w \in Workers : ProcessJobRaises(w, HttpError)
    \/ \E w \in Workers : MarkSuccess(w)
    \/ \E w \in Workers : MarkFailure(w)
    \/ Tick

Spec == Init /\ [][Next]_vars

(***************************************************************************)
(* The job store driven through its whole interface by one worker: direct *)
(* enqueue_job calls with their arguments drawn from small sets, on a      *)
(* table that may hold a row an operator cancelled, from a clock that may  *)
(* have advanced.                                                          *)
(***************************************************************************)
CancelledRow ==
    [NewRow("stats", 0, [username |-> "alice"], 2, DEFAULT_MAX_ATTEMPTS, 0)
        EXCEPT !.status = "cancelled"]

StoreInit ==
    /\ jobs \in {<<>>, <<CancelledRow>>}
    /\ players = <<>>
    /\ archives = <<>>
    /\ now = 40
    /\ pc = [w \in Workers |-> "idle"]
    /\ job = [w \in Workers |-> 0]
    /\ raised = [w \in Workers |-> NoError]
    /\ calls = 0
    /\ claims = 0
    /\ last = NoOp
    /\ SideInit

\* Arguments of the direct calls: <<priority, delay_seconds, max_attempts>>,
\* one tighter and one looser than the seed's stats job in each respect.
EnqueueArgs == {<<1, -5, 1>>, <<5, 30, 6>>}

StoreNext ==
    \/ \E username \in SeedUsernames : Seed(username)
    \/ \E a \in EnqueueArgs :
            Enqueue("stats", 0, [username |-> "alice"], a[1], a[2], a[3])
    \/ ClaimNone("w1")
    \/ (claims < MaxStoreClaims /\ ClaimSelect("w1"))
    \/ ClaimUpdate("w1")
    \/ ProcessJob("w1")
    \/ \E error \in Errors : ProcessJobRaises("w1", error)
    \/ MarkSuccess("w1")
    \/ MarkFailure("w1")
    \/ Tick

StoreSpec == StoreInit /\ [][StoreNext]_vars

(***************************************************************************)
(* The retry cycle: one job, enqueued once with some attempt cap, whose    *)
(* handler raises at its fetch on every run (the upstream answers HTTP 500 *)
(* or 404), and two workers looping (run --loop).  Nothing is enqueued     *)
(* after the start.  The clock advances and a worker that can take a step  *)
(* of its loop eventually takes it.                                        *)
(***************************************************************************)
RetryCaps == {1, 2, DEFAULT_MAX_ATTEMPTS}

RetryInit ==
    /\ \E job_type \in {"profile", "stats"}, max_attempts \in RetryCaps :
          jobs = enqueue_job(<<>>, 0, job_type, 0, [username |-> "alice"],
                             2, 0, max_attempts)
    /\ players = <<>>
    /\ archives = <<>>
    /\ now = 0
    /\ pc = [w \in Workers |-> "idle"]
    /\ job = [w \in Workers |-> 0]
    /\ raised = [w \in Workers |-> NoError]
    /\ calls = 1
    /\ claims = 0
    /\ last = NoOp
    /\ SideInit

\* The steps of worker w that move a claimed job on.
RetryStep(w) ==
    \/ ClaimSelect(w)
    \/ ClaimUpdate(w)
    \/ \E error \in {HttpError, NotFound} : ProcessJobRaises(w, error)
    \/ MarkFailure(w)

RetryNext ==
    \/ \E w \in Workers : ClaimNone(w)
    \/ \E w \in Workers : RetryStep(w)
    \/ Tick

RetrySpec ==
    /\ RetryInit
    /\ [][RetryNext]_vars
    /\ WF_vars(Tick)
    /\ \A w \in Workers : WF_vars(RetryStep(w))

(***************************************************************************)
(* The cascade: the queue holds one profile job, or the three jobs of one  *)
(* seed, or two archives jobs of one player (the second enqueued with the  *)
(* username as typed and a delay), or one archives job of a player with    *)
(* thirteen months of archives, enqueued at clock 0 before a worker        *)
(* starts looping; nothing else is enqueued from outside.  A handler       *)
(* succeeds or raises at its first fetch.                                  *)
(***************************************************************************)
CascadeInit ==
    /\ \/ \E username \in {"alice", "bob"} :
             jobs = enqueue_job(<<>>, 0, "profile", 0, [username |-> username],
                                1, 0, DEFAULT_MAX_ATTEMPTS)
       \/ jobs = enqueue_seed_jobs(<<>>, 0, "Bob")
       \/ jobs = enqueue_job(
                    enqueue_job(<<>>, 0, "archives", 0, [username |-> "bob"],
                                3, 0, DEFAULT_MAX_ATTEMPTS),
                    0, "archives", 0, [username |-> "Bob"],
                    3, 30, DEFAULT_MAX_ATTEMPTS)
       \/ jobs = enqueue_job(<<>>, 0, "archives", 0, [username |-> "carol"],
                             3, 0, DEFAULT_MAX_ATTEMPTS)
    /\ players = <<>>
    /\ archives = <<>>
    /\ now = 0
    /\ pc = [w \in Workers |-> "idle"]
    /\ job = [w \in Workers |-> 0]
    /\ raised = [w \in Workers |-> NoError]
    /\ calls = 1
    /\ claims = 0
    /\ last = NoOp
    /\ SideInit

CascadeNext ==
    \/ ClaimNone("w1")
    \/ (claims < MaxCascadeClaims /\ ClaimSelect("w1"))
    \/ ClaimUpdate("w1")
    \/ ProcessJob("w1")
    \/ ProcessJobRaises("w1", HttpError)
    \/ MarkSuccess("w1")
    \/ MarkFailure("w1")
    \/ Tick

CascadeSpec == CascadeInit /\ [][CascadeNext]_vars

(***************************************************************************)
(* Jobs that lack required scope: one job enqueued without a username and  *)
(* without a player_id, or a games job without archive_url, year and       *)
(* month, and two workers looping.                                         *)
(***************************************************************************)
NoScope == <<>>

ScopeJobs ==
    {<<"profile", NoScope>>, <<"stats", NoScope>>,
     <<"games", [username |-> "alice"]>>}

ScopeInit ==
    /\ \E j \in ScopeJobs, max_attempts \in {1, DEFAULT_MAX_ATTEMPTS} :
          jobs = enqueue_job(<<>>, 0, j[1], 0, j[2], 5, 0, max_attempts)
    /\ players = <<>>
    /\ archives = <<>>
    /\ now = 0
    /\ pc = [w \in Workers |-> "idle"]
    /\ job = [w \in Workers |-> 0]
    /\ raised = [w \in Workers |-> NoError]
    /\ calls = 1
    /\ claims = 0
    /\ last = NoOp
    /\ SideInit

ScopeNext ==
    \/ \E w \in Workers : ClaimNone(w)
    \/ \E w \in Workers : ClaimSelect(w)
    \/ \E w \in Workers : ClaimUpdate(w)
    \/ \E w \in Workers : ProcessJob(w)
    \/ \E w \in Workers : MarkFailure(w)
    \/ Tick

ScopeSpec == ScopeInit /\ [][ScopeNext]_vars

(***************************************************************************)
(* Draining the queue: three stats jobs, queued and available, enqueued    *)
(* before the two workers start looping; the upstream answers every fetch  *)
(* and nothing else is enqueued.  A worker that can take a step of its     *)
(* loop eventually takes it.                                               *)
(***************************************************************************)
DrainUsers == <<"alice", "bob", "Bob">>

RECURSIVE DrainJobs(_)
DrainJobs(n) ==
    IF n = 0
    THEN <<>>
    ELSE enqueue_job(DrainJobs(n - 1), 0, "stats", 0,
                     [username |-> DrainUsers[n]], 2, 0, DEFAULT_MAX_ATTEMPTS)

DrainInit ==
    /\ jobs = DrainJobs(Len(DrainUsers))
    /\ players = <<>>
    /\ archives = <<>>
    /\ now = 0
    /\ pc = [w \in Workers |-> "idle"]
    /\ job = [w \in Workers |-> 0]
    /\ raised = [w \in Workers |-> NoError]
    /\ calls = Len(DrainUsers)
    /\ claims = 0
    /\ last = NoOp
    /\ SideInit

\* The steps of worker w that move a job on.
DrainStep(w) ==
    \/ ClaimSelect(w)
    \/ ClaimUpdate(w)
    \/ ProcessJob(w)
    \/ MarkSuccess(w)

DrainNext ==
    \/ \E w \in Workers : ClaimNone(w)
    \/ \E w \in Workers : DrainStep(w)

DrainSpec ==
    /\ DrainInit
    /\ [][DrainNext]_vars
    /\ \A w \in Workers : WF_vars(DrainStep(w))

(***************************************************************************)
(* The write-only tables and the statements that write them.  SQL NULL in  *)
(* a timestamp column is NULL; the clock starts at 0.  Game columns other  *)
(* than the key, the two player references and the archive reference come  *)
(* from the payload unchanged and are not kept, and neither are the        *)
(* player_stats tables.                                                    *)
(***************************************************************************)
PROFILE_REFRESH_SECONDS == 21600
STATS_REFRESH_SECONDS == 7200
ARCHIVE_REFRESH_SECONDS == 43200

NULL == -1

\* COALESCE(a, b).
Coalesce(a, b) == IF a # NULL THEN a ELSE b

\* The columns of a player_ingestion_state row that hold timestamps.
TimestampColumns ==
    {"last_profile_fetch", "next_profile_fetch", "last_stats_fetch",
     "next_stats_fetch", "last_archives_scan", "next_archives_scan"}

\* An upsert whose conflict branch took every column from the new row.
IngestionStateOverwrite(st, t, player_id, profile_touch, stats_touch, archives_touch, status, error) ==
    [p \in DOMAIN st \cup {player_id} |->
        IF p = player_id
        THEN [last_profile_fetch |-> IF profile_touch THEN t ELSE NULL,
              next_profile_fetch |->
                  IF profile_touch THEN t + PROFILE_REFRESH_SECONDS ELSE NULL,
              last_stats_fetch |-> IF stats_touch THEN t ELSE NULL,
              next_stats_fetch |->
                  IF stats_touch THEN t + STATS_REFRESH_SECONDS ELSE NULL,
              last_archives_scan |-> IF archives_touch THEN t ELSE NULL,
              next_archives_scan |->
                  IF archives_touch THEN t + ARCHIVE_REFRESH_SECONDS ELSE NULL,
              status |-> status,
              error |-> error]
        ELSE st[p]]

\* upsert_player_ingestion_state: the table after the upsert at clock t.
upsert_player_ingestion_state(st, t, player_id, profile_touch, stats_touch, archives_touch, status, error) ==
    LET updates ==
            [last_profile_fetch |-> IF profile_touch THEN t ELSE NULL,
             next_profile_fetch |->
                 IF profile_touch THEN t + PROFILE_REFRESH_SECONDS ELSE NULL,
             last_stats_fetch |-> IF stats_touch THEN t ELSE NULL,
             next_stats_fetch |->
                 IF stats_touch THEN t + STATS_REFRESH_SECONDS ELSE NULL,
             last_archives_scan |-> IF archives_touch THEN t ELSE NULL,
             next_archives_scan |->
                 IF archives_touch THEN t + ARCHIVE_REFRESH_SECONDS ELSE NULL,
             status |-> status,
             error |-> error]
    IN  [p \in DOMAIN st \cup {player_id} |->
            IF p # player_id
            THEN st[p]
            ELSE IF player_id \notin DOMAIN st
            THEN updates
            ELSE [c \in DOMAIN updates |->
                    IF c \in TimestampColumns
                    THEN Coalesce(updates[c], st[p][c])
                    ELSE updates[c]]]

\* The games row ON CONFLICT (url) finds; 0: none.
GameRow(gs, url) ==
    IF \E i \in 1..Len(gs) : gs[i].url = url
    THEN CHOOSE i \in 1..Len(gs) : gs[i].url = url
    ELSE 0

\* An upsert whose conflict branch wrote the player references as given.
UpsertGameNoCoalesce(gs, payload, white_player_id, black_player_id) ==
    LET hit == GameRow(gs, payload.url)
        row == [url |-> payload.url, archive_id |-> payload.archive_id,
                white_player_id |-> white_player_id,
                black_player_id |-> black_player_id]
    IN  IF payload.url = <<>> THEN gs
        ELSE IF hit = 0 THEN Append(gs, row)
        ELSE [gs EXCEPT ![hit] = row]

\* upsert_game: nothing without a url; a player reference that is None
\* (0) leaves the stored one.
upsert_game(gs, payload, white_player_id, black_player_id) ==
    LET hit == GameRow(gs, payload.url)
        row == [url |-> payload.url, archive_id |-> payload.archive_id,
                white_player_id |-> white_player_id,
                black_player_id |-> black_player_id]
    IN  IF payload.url = <<>> THEN gs
        ELSE IF hit = 0 THEN Append(gs, row)
        ELSE [gs EXCEPT ![hit] =
                [row EXCEPT
                    !.white_player_id =
                        IF white_player_id # 0 THEN white_player_id
                        ELSE gs[hit].white_player_id,
                    !.black_player_id =
                        IF black_player_id # 0 THEN black_player_id
                        ELSE gs[hit].black_player_id]]

\* log_fetch: one more fetch_log row.
log_fetch(fl, url, status_code) ==
    Append(fl, [url |-> url, status_code |-> status_code])

\* The URLs of the player endpoints.
ProfileUrl(username) == <<"player", username>>
StatsUrl(username) == <<"player", username, "stats">>
ArchivesUrl(username) == <<"player", username, "games", "archives">>

\* {archive_url}: the games of a month.  alice's and bob's 2024/01 share a
\* game (it is in the archives of both its players); carol plays in
\* alice's second game, and bob meets alice again in 2024/02.
UpstreamGames(archive_url) ==
    CASE archive_url = <<"player", "alice", "games", "2024", "01">> ->
           << [url |-> <<"game", "1">>, white |-> "Alice", black |-> "Bob"],
              [url |-> <<"game", "2">>, white |-> "Carol", black |-> "Alice"] >>
      [] archive_url = <<"player", "bob", "games", "2024", "01">> ->
           << [url |-> <<"game", "1">>, white |-> "Alice", black |-> "Bob"] >>
      [] archive_url = <<"player", "bob", "games", "2024", "02">> ->
           << [url |-> <<"game", "3">>, white |-> "Bob", black |-> "alice"] >>
      [] OTHER -> <<>>

\* What an HTTP call can end in: an answer with status 200 and a body
\* that parses, an answer with another status, requests.RequestException,
\* and an answer with status 200 whose body is not JSON.
Outcomes == {"200", "500", "network", "json"}

StatusCode(outcome) == IF outcome = "200" THEN 200 ELSE 500

NetworkError == [text |-> "ConnectionError", len |-> 15]
DecodeError == [text |-> "Expecting value", len |-> 15]
\* The exception of a failed INSERT INTO fetch_log.
LogError == [text |-> "OperationalError", len |-> 16]

(***************************************************************************)
(* The handlers, one committed statement (or one HTTP call with its        *)
(* fetch_log insert) at a time.  h[w].step is the statement worker w is    *)
(* about to run; a step that raises hands the exception to run, a step     *)
(* that ends the handler returns to it.  A read that follows a statement   *)
(* is taken with it.                                                       *)
(***************************************************************************)
\* The tables as a handler step finds them.
Tables ==
    [jobs |-> jobs, players |-> players, archives |-> archives,
     ingestion |-> ingestion, games |-> games, fetch_log |-> fetch_log]

Returns == [step |-> "return"]

\* A handler step of worker w: the tables it leaves, the exception it
\* raises (NoError: none) and the locals it goes on with.
Step(w, name, db, exc, hw) ==
    /\ jobs' = db.jobs
    /\ players' = db.players
    /\ archives' = db.archives
    /\ ingestion' = db.ingestion
    /\ games' = db.games
    /\ fetch_log' = db.fetch_log
    /\ raised' = [raised EXCEPT ![w] = exc]
    /\ pc' = [pc EXCEPT ![w] = IF exc # NoError THEN "raised"
                               ELSE IF hw = Returns THEN "done"
                               ELSE @]
    /\ h' = [h EXCEPT ![w] = IF exc # NoError \/ hw = Returns
                             THEN NoHandler ELSE hw]
    /\ last' = [op |-> name, who |-> w, id |-> job[w]]
    /\ UNCHANGED <<now, job, calls, claims>>

\* fetch_json followed by log_fetch, as fetch_profile, fetch_stats,
\* fetch_archives and fetch_archive_games run them: the fetch_log table
\* afterwards and the exception raised.  log_ok: the INSERT succeeds.
Fetch(fl, url, outcome, log_ok) ==
    CASE outcome = "network" -> [fetch_log |-> fl, exc |-> NetworkError]
      [] outcome = "json" -> [fetch_log |-> fl, exc |-> DecodeError]
      [] ~log_ok -> [fetch_log |-> fl, exc |-> LogError]
      [] OTHER ->
           [fetch_log |-> log_fetch(fl, url, StatusCode(outcome)),
            exc |-> IF outcome = "200" THEN NoError ELSE HttpError]

\* The job worker w runs a handler for, and whether it stands at a step.
Running(w, job_type, step) ==
    /\ pc[w] = "claimed"
    /\ jobs[job[w]].job_type = job_type
    /\ h[w].step = step

\* job.get("player_id") or fetch_player_id_by_username(username).
KnownPlayerId(ps, row, username) ==
    IF row.player_id # 0 THEN row.player_id
    ELSE fetch_player_id_by_username(ps, username)

(* _process_profile_job *)

\* username = self._current_username(job, scope);
\* profile = self.api_client.fetch_profile(username)
ProfileFetch(w, outcome, log_ok) ==
    /\ Running(w, "profile", "none")
    /\ LET username == current_username(players, jobs[job[w]])
           f == Fetch(fetch_log, ProfileUrl(username), outcome, log_ok)
       IN  IF username = ""
           THEN Step(w, "fetch", Tables, ScopeError, NoHandler)
           ELSE Step(w, "fetch", [Tables EXCEPT !.fetch_log = f.fetch_log],
                     f.exc, [step |-> "store", username |-> username])

\* with get_db_connection() as conn: upsert_player;
\* upsert_player_ingestion_state(profile_touch=True)
profile_store(db, t, profile) ==
    [db EXCEPT
        !.players = upsert_player(@, profile),
        !.ingestion = upsert_player_ingestion_state(
                          @, t, upsert_player_id(db.players, profile),
                          TRUE, FALSE, FALSE, "idle", NoError)]

ProfileStore(w) ==
    /\ Running(w, "profile", "store")
    /\ LET profile == UpstreamProfile(h[w].username)
       IN  Step(w, "store", profile_store(Tables, now, profile), NoError,
                [h[w] EXCEPT !.step = "stats"] @@
                [player_id |-> IF jobs[job[w]].player_id # 0
                               THEN jobs[job[w]].player_id
                               ELSE upsert_player_id(players, profile)])

\* enqueue_job("stats", ...) and enqueue_job("archives", ...)
ProfileEnqueue(w, job_type) ==
    /\ Running(w, "profile", job_type)
    /\ LET scope == [username |-> h[w].username]
       IN  /\ ~EnqueueWaits({build_dedupe_key(job_type, h[w].player_id, scope)})
           /\ Step(w, "enqueue",
                   [Tables EXCEPT !.jobs =
                       enqueue_job(@, now, job_type, h[w].player_id, scope,
                                   IF job_type = "stats" THEN 2 ELSE 3, 0,
                                   DEFAULT_MAX_ATTEMPTS)],
                   NoError,
                   IF job_type = "stats"
                   THEN [h[w] EXCEPT !.step = "archives"] ELSE Returns)

(* _process_stats_job *)

\* stats = self.api_client.fetch_stats(username);
\* player_id = job.get("player_id") or fetch_player_id_by_username(username)
StatsFetch(w, outcome, log_ok) ==
    /\ Running(w, "stats", "none")
    /\ LET username == current_username(players, jobs[job[w]])
           f == Fetch(fetch_log, StatsUrl(username), outcome, log_ok)
           player_id == KnownPlayerId(players, jobs[job[w]], username)
       IN  IF username = ""
           THEN Step(w, "fetch", Tables, ScopeError, NoHandler)
           ELSE Step(w, "fetch", [Tables EXCEPT !.fetch_log = f.fetch_log],
                     f.exc,
                     [step |-> IF player_id = 0 THEN "profile" ELSE "store",
                      username |-> username, player_id |-> player_id])

\* if not player_id: profile = self.api_client.fetch_profile(username)
OwnerFetch(w, job_type, outcome, log_ok) ==
    /\ Running(w, job_type, "profile")
    /\ LET f == Fetch(fetch_log, ProfileUrl(h[w].username), outcome, log_ok)
       IN  Step(w, "fetch", [Tables EXCEPT !.fetch_log = f.fetch_log],
                f.exc, [h[w] EXCEPT !.step = "player"])

\* with get_db_connection() as conn: player_id = upsert_player(conn, profile)
\* (the stats and the archives handler, for a player not known yet)
owner_player(db, t, profile) ==
    [db EXCEPT !.players = upsert_player(@, profile)]

OwnerPlayer(w, job_type) ==
    /\ Running(w, job_type, "player")
    /\ LET profile == UpstreamProfile(h[w].username)
       IN  Step(w, "player", owner_player(Tables, now, profile), NoError,
                [h[w] EXCEPT !.step = IF job_type = "stats" THEN "store"
                                      ELSE "scan",
                             !.player_id = upsert_player_id(players, profile)])

\* with get_db_connection() as conn: upsert_player_stats;
\* upsert_player_ingestion_state(stats_touch=True)
stats_store(db, t, player_id) ==
    [db EXCEPT !.ingestion = upsert_player_ingestion_state(
                                 @, t, player_id, FALSE, TRUE, FALSE,
                                 "idle", NoError)]

StatsStore(w) ==
    /\ Running(w, "stats", "store")
    /\ Step(w, "store", stats_store(Tables, now, h[w].player_id), NoError,
            Returns)

(* _process_archives_job *)

\* archives = list(self.api_client.fetch_archives(username)), cut to the
\* month limit; player_id = job.get("player_id") or
\* fetch_player_id_by_username(username)
ArchivesFetch(w, outcome, log_ok) ==
    /\ Running(w, "archives", "none")
    /\ LET username == current_username(players, jobs[job[w]])
           f == Fetch(fetch_log, ArchivesUrl(username), outcome, log_ok)
           player_id == KnownPlayerId(players, jobs[job[w]], username)
       IN  IF username = ""
           THEN Step(w, "fetch", Tables, ScopeError, NoHandler)
           ELSE Step(w, "fetch", [Tables EXCEPT !.fetch_log = f.fetch_log],
                     f.exc,
                     [step |-> IF player_id = 0 THEN "profile" ELSE "scan",
                      username |-> username, player_id |-> player_id,
                      urls |-> LimitArchives(UpstreamArchives(username)),
                      n |-> 1, pending |-> <<>>])

\* The (player, year, month) keys of the monthly_archives rows that the
\* open transactions of the workers other than w have written and hold
\* locked until they commit.
HeldByOthers(w) ==
    UNION {{<<h[v].pending[i].player_id, h[v].pending[i].year,
              h[v].pending[i].month>> : i \in 1..Len(h[v].pending)} :
           v \in {u \in DOMAIN h \ {w} : h[u].step = "scan"}}

\* The upserts of the open transaction of a worker, applied in order.
RECURSIVE ApplyPending(_, _)
ApplyPending(ar, pending) ==
    IF pending = <<>>
    THEN ar
    ELSE ApplyPending(
            upsert_monthly_archive(ar, Head(pending).player_id,
                                   Head(pending).year, Head(pending).month,
                                   Head(pending).url),
            Tail(pending))

\* One turn of "for archive_url in archives": parse, upsert the month in
\* the open transaction, and enqueue its games job (committed at once, in
\* a connection of its own) when the upsert inserted the row.
ArchivesScan(w) ==
    /\ Running(w, "archives", "scan")
    /\ h[w].n <= Len(h[w].urls)
    /\ LET archive_url == h[w].urls[h[w].n]
           year == ArchiveYear(archive_url)
           month == ArchiveMonth(archive_url)
           mine == ApplyPending(archives, h[w].pending)
           inserted == ArchiveRow(mine, h[w].player_id, year, month) = 0
           scope == archive_scope(h[w].username, archive_url, year, month)
       IN  IF year < 0 \/ month < 0
           THEN Step(w, "skip", Tables, NoError, [h[w] EXCEPT !.n = @ + 1])
           ELSE /\ <<h[w].player_id, year, month>> \notin HeldByOthers(w)
                /\ inserted =>
                      ~EnqueueWaits({build_dedupe_key("games", h[w].player_id,
                                                      scope)})
                /\ Step(w, "scan",
                        [Tables EXCEPT !.jobs =
                            IF inserted
                            THEN enqueue_archive_job(@, now, h[w].player_id,
                                                     h[w].username, archive_url,
                                                     year, month)
                            ELSE @],
                        NoError,
                        [h[w] EXCEPT
                            !.n = @ + 1,
                            !.pending = Append(@,
                                [player_id |-> h[w].player_id, year |-> year,
                                 month |-> month, url |-> archive_url])])

\* upsert_player_ingestion_state(archives_touch=True) and the commit of
\* the transaction that holds the month upserts.
archives_commit(db, t, player_id, pending) ==
    [db EXCEPT
        !.archives = ApplyPending(@, pending),
        !.ingestion = upsert_player_ingestion_state(
                          @, t, player_id, FALSE, FALSE, TRUE, "idle", NoError)]

ArchivesCommit(w) ==
    /\ Running(w, "archives", "scan")
    /\ h[w].n > Len(h[w].urls)
    /\ Step(w, "commit",
            archives_commit(Tables, now, h[w].player_id, h[w].pending),
            NoError, Returns)

(* _process_games_job and ensure_player *)

\* Lookups that took a side not found in players as None and went on.
EnsureSidesLookupOnly(ps, hw) ==
    LET game == hw.body[hw.n]
    IN  [hw EXCEPT !.step = "game", !.side = "black",
                   !.white_id = fetch_player_id_by_username(ps, game.white),
                   !.black_id = fetch_player_id_by_username(ps, game.black)]

\* The lookups of ensure_player for the two sides of game n, from the
\* side the handler stands at on: a side without a username is None, a
\* side found in players is its id, and the first side not found sends
\* the handler to fetch its profile.
EnsureSides(ps, hw) ==
    LET game == hw.body[hw.n]
        white == lower_username(game.white)
        black == lower_username(game.black)
        w_id == IF hw.side = "white"
                THEN fetch_player_id_by_username(ps, white)
                ELSE hw.white_id
        b_id == fetch_player_id_by_username(ps, black)
    IN  IF hw.side = "white" /\ white # "" /\ w_id = 0
        THEN [hw EXCEPT !.step = "ensure", !.target = white]
        ELSE IF black # "" /\ b_id = 0
        THEN [hw EXCEPT !.step = "ensure", !.target = black,
                        !.side = "black", !.white_id = w_id]
        ELSE [hw EXCEPT !.step = "game", !.side = "black",
                        !.white_id = w_id, !.black_id = b_id]

\* The handler at the head of game n of the body, or past the last game.
AtGame(ps, hw) ==
    IF hw.n > Len(hw.body)
    THEN [hw EXCEPT !.step = "finish"]
    ELSE EnsureSides(ps, [hw EXCEPT !.side = "white", !.white_id = 0,
                                   !.black_id = 0])

\* data = self.api_client.fetch_archive_games(archive_url);
\* player_id = job.get("player_id") or fetch_player_id_by_username(username)
GamesFetch(w, outcome, log_ok) ==
    /\ Running(w, "games", "none")
    /\ LET row == jobs[job[w]]
           username == current_username(players, row)
           complete == {"archive_url", "year", "month"} \subseteq DOMAIN row.scope
           f == Fetch(fetch_log, row.scope.archive_url, outcome, log_ok)
           player_id == KnownPlayerId(players, row, username)
       IN  IF username = ""
           THEN Step(w, "fetch", Tables, ScopeError, NoHandler)
           ELSE IF ~complete
           THEN Step(w, "fetch", Tables, GamesScopeError, NoHandler)
           ELSE Step(w, "fetch", [Tables EXCEPT !.fetch_log = f.fetch_log],
                     f.exc,
                     [step |-> IF player_id = 0 THEN "ensure" ELSE "archive",
                      username |-> username, player_id |-> player_id,
                      target |-> username, side |-> "owner",
                      body |-> UpstreamGames(row.scope.archive_url),
                      archive_id |-> 0, n |-> 1,
                      white_id |-> 0, black_id |-> 0])

\* ensure_player: profile = api_client.fetch_profile(username)
EnsureFetch(w, outcome, log_ok) ==
    /\ Running(w, "games", "ensure")
    /\ LET f == Fetch(fetch_log, ProfileUrl(h[w].target), outcome, log_ok)
       IN  Step(w, "fetch", [Tables EXCEPT !.fetch_log = f.fetch_log],
                f.exc, [h[w] EXCEPT !.step = "ensured"])

\* ensure_player: with get_db_connection() as conn: upsert_player;
\* upsert_player_ingestion_state(conn, player_id, status="idle")
ensure_player(db, t, profile) ==
    [db EXCEPT
        !.players = upsert_player(@, profile),
        !.ingestion = upsert_player_ingestion_state(
                          @, t, upsert_player_id(db.players, profile),
                          FALSE, FALSE, FALSE, "idle", NoError)]

EnsureStore(w) ==
    /\ Running(w, "games", "ensured")
    /\ LET profile == UpstreamProfile(h[w].target)
           db == ensure_player(Tables, now, profile)
           player_id == upsert_player_id(players, profile)
       IN  Step(w, "ensured", db, NoError,
                CASE h[w].side = "owner" ->
                       [h[w] EXCEPT !.step = "archive", !.player_id = player_id]
                  [] h[w].side = "white" ->
                       EnsureSides(db.players,
                                   [h[w] EXCEPT !.side = "black",
                                                !.white_id = player_id])
                  [] OTHER ->
                       [h[w] EXCEPT !.step = "game", !.black_id = player_id])

\* SELECT id FROM monthly_archives WHERE player_id, year, month; the
\* handler raises when there is no such row.
GamesArchive(w) ==
    /\ Running(w, "games", "archive")
    /\ LET scope == jobs[job[w]].scope
           hit == ArchiveRow(archives, h[w].player_id, scope.year, scope.month)
       IN  IF hit = 0
           THEN Step(w, "archive", Tables, ArchiveMissing, NoHandler)
           ELSE Step(w, "archive", Tables, NoError,
                     AtGame(players, [h[w] EXCEPT !.archive_id = hit]))

\* payload = generate_game_payload(game, archive_id);
\* with get_db_connection() as conn: upsert_game(conn, payload, white_id,
\* black_id)
GamesUpsert(w) ==
    /\ Running(w, "games", "game")
    /\ LET payload == [url |-> h[w].body[h[w].n].url,
                       archive_id |-> h[w].archive_id]
       IN  Step(w, "game",
                [Tables EXCEPT !.games =
                    upsert_game(@, payload, h[w].white_id, h[w].black_id)],
                NoError,
                AtGame(players, [h[w] EXCEPT !.n = @ + 1]))

\* UPDATE monthly_archives SET fetch_status = 'succeeded', retry_count = 0
\* WHERE player_id, year, month
games_finish(ar, player_id, year, month) ==
    [i \in 1..Len(ar) |->
        IF ar[i].player_id = player_id /\ ar[i].year = year
           /\ ar[i].month = month
        THEN [ar[i] EXCEPT !.fetch_status = "succeeded", !.retry_count = 0]
        ELSE ar[i]]

GamesFinish(w) ==
    /\ Running(w, "games", "finish")
    /\ LET scope == jobs[job[w]].scope
       IN  Step(w, "finish",
                [Tables EXCEPT !.archives =
                    games_finish(@, h[w].player_id, scope.year, scope.month)],
                NoError, Returns)

\* The worker process dies inside a handler: its open transaction is gone
\* and nothing in the code touches the job row again.
Crash(w) ==
    /\ pc[w] = "claimed"
    /\ pc' = [pc EXCEPT ![w] = "crashed"]
    /\ h' = [h EXCEPT ![w] = NoHandler]
    /\ last' = [op |-> "crash", who |-> w, id |-> job[w]]
    /\ UNCHANGED <<jobs, players, archives, now, job, raised, calls, claims,
                   ingestion, games, fetch_log>>

(***************************************************************************)
(* One worker running the handlers statement by statement: the queue       *)
(* holds the three jobs of a seed, or one archives job, enqueued at clock  *)
(* 0.  An HTTP call ends in any of its outcomes, the fetch_log insert may  *)
(* fail, and the worker process may die inside a handler.                  *)
(***************************************************************************)
\* At most this many claim transactions select a row in HandlerSpec.
MaxHandlerClaims == 3

HandlerInit ==
    /\ \/ jobs = enqueue_seed_jobs(<<>>, 0, "Alice")
       \/ jobs = enqueue_job(<<>>, 0, "archives", 0, [username |-> "alice"],
                             3, 0, DEFAULT_MAX_ATTEMPTS)
    /\ players = <<>>
    /\ archives = <<>>
    /\ now = 0
    /\ pc = [w \in Workers |-> "idle"]
    /\ job = [w \in Workers |-> 0]
    /\ raised = [w \in Workers |-> NoError]
    /\ calls = 1
    /\ claims = 0
    /\ last = NoOp
    /\ SideInit

\* The steps of the four handlers, given how the HTTP call of the step (if
\* it makes one) ends.
HandlerStep(w, outcome, log_ok) ==
    \/ ProfileFetch(w, outcome, log_ok)
    \/ StatsFetch(w, outcome, log_ok)
    \/ ArchivesFetch(w, outcome, log_ok)
    \/ GamesFetch(w, outcome, log_ok)
    \/ \E job_type \in {"stats", "archives"} :
          OwnerFetch(w, job_type, outcome, log_ok)
    \/ EnsureFetch(w, outcome, log_ok)

HandlerStore(w) ==
    \/ ProfileStore(w)
    \/ \E job_type \in {"stats", "archives"} : ProfileEnqueue(w, job_type)
    \/ \E job_type \in {"stats", "archives"} : OwnerPlayer(w, job_type)
    \/ StatsStore(w)
    \/ ArchivesScan(w)
    \/ ArchivesCommit(w)
    \/ EnsureStore(w)
    \/ GamesArchive(w)
    \/ GamesUpsert(w)
    \/ GamesFinish(w)

HandlerNext ==
    \/ ClaimNone("w1")
    \/ (claims < MaxHandlerClaims /\ ClaimSelect("w1"))
    \/ ClaimUpdate("w1")
    \/ \E outcome \in Outcomes : HandlerStep("w1", outcome, TRUE)
    \/ HandlerStep("w1", "200", FALSE)
    \/ HandlerStore("w1")
    \/ Crash("w1")
    \/ MarkSuccess("w1")
    \/ MarkFailure("w1")
    \/ Tick

HandlerSpec == HandlerInit /\ [][HandlerNext]_vars

(***************************************************************************)
(* A month of games: the queue holds one archives job for a player with    *)
(* one month, enqueued at clock 0, and two workers loop.  The archives    *)
(* handler and the fetch of the month succeed; a lazy opponent fetch may   *)
(* be answered HTTP 500, and the process of worker w1 may die while it is  *)
(* at a game.  The clock advances and a worker that is alive and can take  *)
(* a step of its loop eventually takes it.                                 *)
(***************************************************************************)
\* At most this many claim transactions select a row in GamesSpec.
MaxGamesClaims == 3

GamesInit ==
    /\ jobs = enqueue_job(<<>>, 0, "archives", 0, [username |-> "alice"],
                          3, 0, DEFAULT_MAX_ATTEMPTS)
    /\ players = <<>>
    /\ archives = <<>>
    /\ now = 0
    /\ pc = [w \in Workers |-> "idle"]
    /\ job = [w \in Workers |-> 0]
    /\ raised = [w \in Workers |-> NoError]
    /\ calls = 1
    /\ claims = 0
    /\ last = NoOp
    /\ SideInit

\* The handler of worker w stands at a game of the body.
AtAGame(w) ==
    /\ pc[w] = "claimed"
    /\ jobs[job[w]].job_type = "games"
    /\ h[w].step \in {"ensure", "ensured", "game"}
    /\ h[w].side # "owner"

\* The steps of the loop of worker w.
GamesStep(w) ==
    \/ (claims < MaxGamesClaims /\ ClaimSelect(w))
    \/ ClaimUpdate(w)
    \/ ArchivesFetch(w, "200", TRUE)
    \/ OwnerFetch(w, "archives", "200", TRUE)
    \/ OwnerPlayer(w, "archives")
    \/ ArchivesScan(w)
    \/ ArchivesCommit(w)
    \/ GamesFetch(w, "200", TRUE)
    \/ \E outcome \in {"200", "500"} : EnsureFetch(w, outcome, TRUE)
    \/ EnsureStore(w)
    \/ GamesArchive(w)
    \/ GamesUpsert(w)
    \/ GamesFinish(w)
    \/ MarkSuccess(w)
    \/ MarkFailure(w)

GamesNext ==
    \/ \E w \in Workers : ClaimNone(w)
    \/ \E w \in Workers : GamesStep(w)
    \/ (AtAGame("w1") /\ Crash("w1"))
    \/ Tick

GamesSpec ==
    /\ GamesInit
    /\ [][GamesNext]_vars
    /\ WF_vars(Tick)
    /\ \A w \in Workers : WF_vars(GamesStep(w))

(***************************************************************************)
(* Two workers over two archives jobs of one player that the database      *)
(* does not hold yet, enqueued at clock 0 (the second with the username as *)
(* typed), and over the games jobs of the player's months, every handler   *)
(* taken statement by statement.  The upstream answers every call and      *)
(* nothing fails, so each job is claimed once.                             *)
(***************************************************************************)
RaceInit ==
    /\ jobs = enqueue_job(
                  enqueue_job(<<>>, 0, "archives", 0, [username |-> "bob"],
                              3, 0, DEFAULT_MAX_ATTEMPTS),
                  0, "archives", 0, [username |-> "Bob"],
                  3, 0, DEFAULT_MAX_ATTEMPTS)
    /\ players = <<>>
    /\ archives = <<>>
    /\ now = 0
    /\ pc = [w \in Workers |-> "idle"]
    /\ job = [w \in Workers |-> 0]
    /\ raised = [w \in Workers |-> NoError]
    /\ calls = 2
    /\ claims = 0
    /\ last = NoOp
    /\ SideInit

\* The steps of the archives and the games handler.
RaceStep(w) ==
    \/ ArchivesFetch(w, "200", TRUE)
    \/ OwnerFetch(w, "archives", "200", TRUE)
    \/ OwnerPlayer(w, "archives")
    \/ ArchivesScan(w)
    \/ ArchivesCommit(w)
    \/ GamesFetch(w, "200", TRUE)
    \/ EnsureFetch(w, "200", TRUE)
    \/ EnsureStore(w)
    \/ GamesArchive(w)
    \/ GamesUpsert(w)
    \/ GamesFinish(w)

RaceNext ==
    \/ \E w \in Workers : ClaimNone(w)
    \/ \E w \in Workers : ClaimSelect(w)
    \/ \E w \in Workers : ClaimUpdate(w)
    \/ \E w \in Workers : RaceStep(w)
    \/ \E w \in Workers : MarkSuccess(w)

RaceSpec == RaceInit /\ [][RaceNext]_vars

(***************************************************************************)
(* A worker that dies: the queue holds the three jobs of a seed for alice, *)
(* two workers loop, worker w1 may die inside a handler, and the enqueue   *)
(* command may be run again for the same username.  The upstream answers   *)
(* every fetch.                                                            *)
(***************************************************************************)
DeathInit ==
    /\ jobs = enqueue_seed_jobs(<<>>, 0, "alice")
    /\ players = <<>>
    /\ archives = <<>>
    /\ now = 0
    /\ pc = [w \in Workers |-> "idle"]
    /\ job = [w \in Workers |-> 0]
    /\ raised = [w \in Workers |-> NoError]
    /\ calls = 1
    /\ claims = 0
    /\ last = NoOp
    /\ SideInit

DeathNext ==
    \/ Seed("alice")
    \/ \E w \in Workers : ClaimNone(w)
    \/ \E w \in Workers : ClaimSelect(w)
    \/ \E w \in Workers : ClaimUpdate(w)
    \/ \E w \in Workers : ProcessJob(w)
    \/ \E w \in Workers : MarkSuccess(w)
    \/ Crash("w1")
    \/ Tick

DeathSpec == DeathInit /\ [][DeathNext]_vars

(***************************************************************************)
(* One-shot mode: each worker is one `run --once` process, started on a    *)
(* queue that is empty or holds what the enqueue command has put there;    *)
(* the command may be run while the workers run, the clock advances and a  *)
(* handler succeeds or raises.  A worker that has returned from run is at  *)
(* "exited".                                                               *)
(***************************************************************************)
OnceInit ==
    /\ jobs = <<>>
    /\ players = <<>>
    /\ archives = <<>>
    /\ now = 0
    /\ pc = [w \in Workers |-> "idle"]
    /\ job = [w \in Workers |-> 0]
    /\ raised = [w \in Workers |-> NoError]
    /\ calls = 0
    /\ claims = 0
    /\ last = NoOp
    /\ SideInit

\* run(once=True): job = self._claim_job(); if not job: return.
OnceClaimNone(w) ==
    /\ pc[w] = "idle"
    /\ Visible(jobs, now, RowLocked) = {}
    /\ pc' = [pc EXCEPT ![w] = "exited"]
    /\ last' = [op |-> "claim_none", who |-> w, id |-> 0]
    /\ UNCHANGED <<jobs, players, archives, now, job, raised, calls, claims>>
    /\ UNCHANGED side

\* run without the return that ends a one-shot run: the worker goes
\* round the loop.
LoopMarkSuccess(w) == MarkSuccess(w)

\* run(once=True): self._mark_job_success(job["id"]); if once: return.
OnceMarkSuccess(w) ==
    /\ pc[w] = "done"
    /\ job[w] \notin RowLocked
    /\ jobs' = mark_job_success(jobs, job[w])
    /\ pc' = [pc EXCEPT ![w] = "exited"]
    /\ last' = [op |-> "success", who |-> w, id |-> job[w]]
    /\ UNCHANGED <<players, archives, now, job, raised, calls, claims>>
    /\ UNCHANGED side

\* run(once=True): self._mark_job_failure(job["id"], str(exc)); if once:
\* return.
OnceMarkFailure(w) ==
    /\ pc[w] = "raised"
    /\ job[w] \notin RowLocked
    /\ jobs' = mark_job_failure(jobs, now, job[w], raised[w])
    /\ pc' = [pc EXCEPT ![w] = "exited"]
    /\ last' = [op |-> "failure", who |-> w, id |-> job[w]]
    /\ UNCHANGED <<players, archives, now, job, raised, calls, claims>>
    /\ UNCHANGED side

OnceNext ==
    \/ Seed("alice")
    \/ \E w \in Workers : OnceClaimNone(w)
    \/ \E w \in Workers : ClaimSelect(w)
    \/ \E w \in Workers : ClaimUpdate(w)
    \/ \E w \in Workers : ProcessJob(w)
    \/ \E w \in Workers : ProcessJobRaises(w, HttpError)
    \/ \E w \in Workers : OnceMarkSuccess(w)
    \/ \E w \in Workers : OnceMarkFailure(w)
    \/ Tick

OnceSpec == OnceInit /\ [][OnceNext]_vars

(***************************************************************************)
(* upsert_game called directly, in any order, for two game URLs and for a  *)
(* payload without a URL, with each side's player id None (0) or one of    *)
(* two ids, on a games table that starts empty.                            *)
(***************************************************************************)
GameUrls == {<<"game", "1">>, <<"game", "2">>, <<>>}
GamePlayerIds == {0, 1, 2}

GameStoreInit ==
    /\ jobs = <<>>
    /\ players = <<>>
    /\ archives = <<>>
    /\ now = 0
    /\ pc = [w \in Workers |-> "idle"]
    /\ job = [w \in Workers |-> 0]
    /\ raised = [w \in Workers |-> NoError]
    /\ calls = 0
    /\ claims = 0
    /\ last = NoOp
    /\ SideInit

\* with get_db_connection() as conn: upsert_game(conn, payload,
\* white_player_id, black_player_id)
UpsertGame(url, white_player_id, black_player_id) ==
    /\ games' = upsert_game(games, [url |-> url, archive_id |-> 1],
                            white_player_id, black_player_id)
    /\ last' = [op |-> "upsert_game", who |-> "", id |-> GameRow(games, url),
                white |-> white_player_id, black |-> black_player_id]
    /\ UNCHANGED <<jobs, players, archives, now, pc, job, raised, calls,
                   claims, ingestion, fetch_log, h>>

GameStoreNext ==
    \E url \in GameUrls, white_player_id \in GamePlayerIds,
       black_player_id \in GamePlayerIds :
        UpsertGame(url, white_player_id, black_player_id)

GameStoreSpec == GameStoreInit /\ [][GameStoreNext]_vars

(***************************************************************************)
(* The pipeline of one seed: the queue holds the three jobs of a seed for  *)
(* alice, enqueued at clock 0, and three worker processes loop.  The       *)
(* upstream answers every call with HTTP 200, every statement succeeds and *)
(* no worker dies.  The archives handler runs statement by statement, its  *)
(* monthly_archives rows committed at the end of its transaction; the      *)
(* profile, stats and games handlers run in one step each.                 *)
(* The clock advances and a worker that can take a step of its loop        *)
(* eventually takes it.                                                    *)
(***************************************************************************)
\* The worker processes started against the one database.
Crew == {"w1", "w2", "w3"}

PipelineInit ==
    /\ jobs = enqueue_seed_jobs(<<>>, 0, "alice")
    /\ players = <<>>
    /\ archives = <<>>
    /\ now = 0
    /\ pc = [w \in Crew |-> "idle"]
    /\ job = [w \in Crew |-> 0]
    /\ raised = [w \in Crew |-> NoError]
    /\ calls = 1
    /\ claims = 0
    /\ last = NoOp
    /\ ingestion = <<>>
    /\ games = <<>>
    /\ fetch_log = <<>>
    /\ h = [w \in Crew |-> NoHandler]

\* The steps of worker w that move a job on.
PipelineStep(w) ==
    \/ ClaimSelect(w)
    \/ ClaimUpdate(w)
    \/ /\ pc[w] = "claimed"
       /\ jobs[job[w]].job_type \in {"profile", "stats", "games"}
       /\ ProcessJob(w)
    \/ ArchivesFetch(w, "200", TRUE)
    \/ OwnerFetch(w, "archives", "200", TRUE)
    \/ OwnerPlayer(w, "archives")
    \/ ArchivesScan(w)
    \/ ArchivesCommit(w)
    \/ MarkSuccess(w)
    \/ MarkFailure(w)

PipelineNext ==
    \/ \E w \in Crew : ClaimNone(w)
    \/ \E w \in Crew : PipelineStep(w)
    \/ Tick

PipelineSpec ==
    /\ PipelineInit
    /\ [][PipelineNext]_vars
    /\ WF_vars(Tick)
    /\ \A w \in Crew : WF_vars(PipelineStep(w))

(***************************************************************************)
(* A month under a failing upstream: the queue holds one archives job for  *)
(* alice, enqueued at clock 0, and two workers loop.  Any run of a handler *)
(* may succeed or raise at its fetch (the upstream answers HTTP 500); the  *)
(* handlers run in one step each.  Every job stops being claimed once its  *)
(* attempts are used up, so the runs are finite.                           *)
(***************************************************************************)
MonthInit ==
    /\ jobs = enqueue_job(<<>>, 0, "archives", 0, [username |-> "alice"],
                          3, 0, DEFAULT_MAX_ATTEMPTS)
    /\ players = <<>>
    /\ archives = <<>>
    /\ now = 0
    /\ pc = [w \in Workers |-> "idle"]
    /\ job = [w \in Workers |-> 0]
    /\ raised = [w \in Workers |-> NoError]
    /\ calls = 1
    /\ claims = 0
    /\ last = NoOp
    /\ SideInit

MonthNext ==
    \/ \E w \in Workers : ClaimNone(w)
    \/ \E w \in Workers : ClaimSelect(w)
    \/ \E w \in Workers : ClaimUpdate(w)
    \/ \E w \in Workers : ProcessJob(w)
    \/ \E w \in Workers : ProcessJobRaises(w, HttpError)
    \/ \E w \in Workers : MarkSuccess(w)
    \/ \E w \in Workers : MarkFailure(w)
    \/ Tick

MonthSpec == MonthInit /\ [][MonthNext]_vars
(***************************************************************************)
(* Properties.                                                             *)
(***************************************************************************)
Holding(w) == pc[w] \in {"claimed", "done", "raised"}

Terminal(status) == status \in {"succeeded", "cancelled"}

\* What the claim query is specified to look for: status = queued and
\* available_at <= now.
Eligible(i) == jobs[i].status = "queued" /\ jobs[i].available_at <= now

\* Row i comes before row k in the claim order: ascending priority, then
\* ascending id.
Before(i, k) ==
    \/ jobs[i].priority < jobs[k].priority
    \/ jobs[i].priority = jobs[k].priority /\ i <= k

\* No claim transaction of a worker other than w holds row i locked.
FreeFor(i, w) ==
    \A v \in Workers \ {w} : ~(pc[v] = "selected" /\ job[v] = i)

\* C1: whenever a claim returns a row, that row was queued before the
\* update and is locked after it, and no other claim transaction had
\* selected the same row: a queued row is moved to locked by one claim only.
C1_ExclusiveClaim ==
    [][\A w \in Workers :
          ClaimUpdate(w) =>
              /\ jobs[job[w]].status = "queued"
              /\ jobs'[job[w]].status = "locked"
              /\ FreeFor(job[w], w)]_vars

\* Two claim transactions are open at once: v has just selected a row
\* although the row w holds locked is still queued, available and ahead of
\* it in the claim order.
C1_Witness ==
    \E w, v \in Workers :
        /\ w # v
        /\ pc[w] = "selected" /\ pc[v] = "selected"
        /\ last = [op |-> "select", who |-> v, id |-> job[v]]
        /\ job[w] # job[v]
        /\ Eligible(job[w])
        /\ Before(job[w], job[v])

\* C2: while a worker holds a job (from its claim to its own
\* mark_success / mark_failure) the row stays locked and no other worker
\* holds the same job.
C2_NoDuplicateWork ==
    \A w \in Workers :
        Holding(w) =>
            /\ jobs[job[w]].status = "locked"
            /\ \A v \in Workers \ {w} : ~(Holding(v) /\ job[v] = job[w])

\* C3: a row whose status is succeeded or cancelled keeps that status in
\* every later state.
C3_TerminalNeverRevived ==
    [][\A i \in 1..Len(jobs) :
          Terminal(jobs[i].status) => jobs'[i].status = jobs[i].status]_vars

\* C5: for every dedup key at most one row is queued or locked.
C5_OneLiveRowPerKey ==
    \A i, k \in 1..Len(jobs) :
        (/\ i # k
         /\ build_dedupe_key(jobs[i].job_type, jobs[i].player_id, jobs[i].scope)
              = build_dedupe_key(jobs[k].job_type, jobs[k].player_id, jobs[k].scope))
        => ~(/\ jobs[i].status \in {"queued", "locked"}
             /\ jobs[k].status \in {"queued", "locked"})

\* A second seed has met the rows of the first while one of them was
\* locked by a worker, and a profile handler has cascaded: five rows, the
\* seed's and the cascade's stats and archives jobs under different keys.
C5_Witness ==
    /\ calls = 2
    /\ last.op = "seed"
    /\ Len(jobs) = 5
    /\ \E w \in Workers : Holding(w) /\ jobs[job[w]].status = "queued"

EnqueueStep == calls' # calls \/ \E w \in Workers : ProcessJob(w)

\* The dedup key of the direct calls and of the seed's jobs, written out.
KeyOf(job_type) ==
    <<job_type, [player_id |-> 0, scope |-> [username |-> "alice"]]>>

\* C4: a step that calls enqueue leaves the status of every succeeded or
\* cancelled row as it is and adds no row under the dedup key of such a row.
C4_TerminalNotRequeued ==
    [][EnqueueStep =>
          \A i \in 1..Len(jobs) :
              Terminal(jobs[i].status) =>
                  /\ jobs'[i].status = jobs[i].status
                  /\ \A k \in (Len(jobs) + 1)..Len(jobs') :
                        jobs'[k].dedupe_key # jobs[i].dedupe_key]_vars

\* A direct enqueue has just met a succeeded row under its key.
C4_Witness ==
    /\ last.op = "enqueue" /\ last.who = "conflict"
    /\ jobs[last.id].status = "succeeded"
    /\ jobs[last.id].dedupe_key = KeyOf("stats")

\* Row i after an enqueue with these arguments met it: priority and
\* available_at the smaller, max_attempts the larger of the two; attempts
\* and the position of the row as before, and no row added for it.
Merged(i, priority, delay_seconds, max_attempts) ==
    LET incoming == now + (IF delay_seconds > 0 THEN delay_seconds ELSE 0)
    IN  /\ jobs'[i].priority =
              (IF priority < jobs[i].priority THEN priority ELSE jobs[i].priority)
        /\ jobs'[i].available_at =
              (IF incoming < jobs[i].available_at THEN incoming
               ELSE jobs[i].available_at)
        /\ jobs'[i].max_attempts =
              (IF max_attempts > jobs[i].max_attempts THEN max_attempts
               ELSE jobs[i].max_attempts)
        /\ jobs'[i].attempts = jobs[i].attempts
        /\ jobs'[i].dedupe_key = jobs[i].dedupe_key
        /\ \A k \in (Len(jobs) + 1)..Len(jobs') :
              jobs'[k].dedupe_key # jobs[i].dedupe_key

Live(i) == ~Terminal(jobs[i].status)

\* C6: an enqueue that meets a non-terminal row of its dedup key merges:
\* min priority, min available_at, max max_attempts, attempts and id kept.
C6_ConflictMerge ==
    [][/\ \A a \in EnqueueArgs :
            Enqueue("stats", 0, [username |-> "alice"], a[1], a[2], a[3]) =>
                /\ \A i \in 1..Len(jobs) :
                      (jobs[i].dedupe_key = KeyOf("stats") /\ Live(i)) =>
                          Merged(i, a[1], a[2], a[3]) /\ last'.id = i
       /\ \A username \in SeedUsernames :
            Seed(username) =>
                \A i \in 1..Len(jobs) :
                    /\ (jobs[i].dedupe_key = KeyOf("profile") /\ Live(i)) =>
                          Merged(i, 1, 0, 5)
                    /\ (jobs[i].dedupe_key = KeyOf("stats") /\ Live(i)) =>
                          Merged(i, 2, 15, 5)
                    /\ (jobs[i].dedupe_key = KeyOf("archives") /\ Live(i)) =>
                          Merged(i, 3, 30, 5)]_vars

\* A direct enqueue has just met a live row that by now carries the
\* priority of one call and the max_attempts of another.
C6_Witness ==
    /\ last.op = "enqueue" /\ last.who = "conflict"
    /\ jobs[last.id].status = "queued"
    /\ jobs[last.id].priority = 1
    /\ jobs[last.id].max_attempts = 6

\* C7, as claimed: a seed right after a seed of the same username changes
\* no row, and no enqueue that meets a queued row changes anything.
C7_ReEnqueueChangesNothing ==
    [][/\ \A username \in SeedUsernames :
            (Seed(username) /\ last.op = "seed"
                /\ last.who = lower_username(username)) => jobs' = jobs
       /\ \A a \in EnqueueArgs :
            Enqueue("stats", 0, [username |-> "alice"], a[1], a[2], a[3]) =>
                ((\E i \in 1..Len(jobs) :
                     jobs[i].dedupe_key = KeyOf("stats")
                       /\ jobs[i].status = "queued")
                 => jobs' = jobs)]_vars

\* C7, amended: a seed right after a seed of the same username changes no
\* row; an enqueue that meets a queued row changes nothing when its
\* priority is not smaller, its available_at not earlier and its
\* max_attempts not larger than the row's.
C7_SeedTwiceIdempotent ==
    [][/\ \A username \in SeedUsernames :
            (Seed(username) /\ last.op = "seed"
                /\ last.who = lower_username(username)) => jobs' = jobs
       /\ \A a \in EnqueueArgs :
            Enqueue("stats", 0, [username |-> "alice"], a[1], a[2], a[3]) =>
                ((\E i \in 1..Len(jobs) :
                     /\ jobs[i].dedupe_key = KeyOf("stats")
                     /\ jobs[i].status = "queued"
                     /\ a[1] >= jobs[i].priority
                     /\ now + (IF a[2] > 0 THEN a[2] ELSE 0)
                          >= jobs[i].available_at
                     /\ a[3] <= jobs[i].max_attempts)
                 => jobs' = jobs)]_vars

\* Two seeds and no claim: the three rows of the first seed, unchanged
\* after the second, the clock having moved on to the stats job's time.
C7_Witness ==
    /\ calls = 2 /\ claims = 0
    /\ last = [op |-> "seed", who |-> "alice", id |-> 0]
    /\ Len(jobs) = 3
    /\ jobs[1].job_type = "profile"
    /\ now > jobs[1].available_at
    /\ \A i \in 1..3 : jobs[i].status = "queued" /\ jobs[i].attempts = 0
    /\ jobs[2].available_at = jobs[1].available_at + 15
    /\ jobs[3].available_at = jobs[1].available_at + 30

\* The row the seed is to insert for a job type, at the clock of the seed.
SeedRow(i, job_type, priority, delay) ==
    /\ jobs'[i].job_type = job_type
    /\ jobs'[i].player_id = 0
    /\ jobs'[i].scope = [username |-> "alice"]
    /\ jobs'[i].status = "queued"
    /\ jobs'[i].attempts = 0
    /\ jobs'[i].priority = priority
    /\ jobs'[i].available_at = now + delay

\* C8: a seed on an empty table leaves exactly three queued rows with
\* attempts 0 for the username (in its lowercase form): profile with
\* priority 1 at now, stats with priority 2 at now + 15, archives with
\* priority 3 at now + 30.
C8_SeedFanOut ==
    [][\A username \in SeedUsernames :
          (Seed(username) /\ jobs = <<>>) =>
              /\ Len(jobs') = 3
              /\ SeedRow(1, "profile", 1, 0)
              /\ SeedRow(2, "stats", 2, 15)
              /\ SeedRow(3, "archives", 3, 30)]_vars

\* The state right after the first seed on an empty table.
C8_Witness ==
    /\ calls = 1 /\ claims = 0
    /\ last.op = "seed"
    /\ Len(jobs) = 3
    /\ jobs[1].job_type = "profile" /\ jobs[1].available_at = now
    /\ jobs[3].job_type = "archives" /\ jobs[3].available_at = now + 30
    /\ now > 0

\* C10: mark_failure sets failed and keeps available_at when attempts >=
\* max_attempts, sets queued and available_at = now + 300 otherwise; it
\* stores the error cut to 500 characters and leaves attempts, priority,
\* max_attempts and every other row as they are.
C10_MarkFailure ==
    [][\A w \in Workers :
          MarkFailure(w) =>
              LET old == jobs[job[w]]
                  new == jobs'[job[w]]
              IN  /\ old.attempts >= old.max_attempts =>
                        /\ new.status = "failed"
                        /\ new.available_at = old.available_at
                  /\ old.attempts < old.max_attempts =>
                        /\ new.status = "queued"
                        /\ new.available_at = now + 300
                  /\ new.error.len <= 500
                  /\ raised[w].len <= 500 => new.error = raised[w]
                  /\ raised[w].len > 500 =>
                        /\ new.error.len = 500
                        /\ new.error.text = raised[w].text \o "[:500]"
                  /\ new.attempts = old.attempts
                  /\ new.priority = old.priority
                  /\ new.max_attempts = old.max_attempts
                  /\ Len(jobs') = Len(jobs)
                  /\ \A i \in 1..Len(jobs) : i # job[w] => jobs'[i] = jobs[i]]_vars

\* A failure at the attempt cap has just made a row failed, its long error
\* cut to 500 characters.
C10_Witness ==
    /\ last.op = "failure"
    /\ jobs[last.id].status = "failed"
    /\ jobs[last.id].attempts >= jobs[last.id].max_attempts
    /\ jobs[last.id].error.len = 500

\* C11: every row with status failed has attempts >= max_attempts, the
\* attempts counting the claims of the row.
C11_FailedAtCap ==
    \A i \in 1..Len(jobs) :
        jobs[i].status = "failed" => jobs[i].attempts >= jobs[i].max_attempts

\* A row failed at its cap of 1, was enqueued again, claimed again and has
\* failed a second time.
C11_Witness ==
    \E i \in 1..Len(jobs) :
        /\ jobs[i].status = "failed"
        /\ jobs[i].attempts = 2
        /\ jobs[i].max_attempts = 1
        /\ last = [op |-> "failure", who |-> "w1", id |-> i]

\* C13: the attempt count of every row is at most its attempt cap.
C13_AttemptsCapped ==
    \A i \in 1..Len(jobs) : jobs[i].attempts <= jobs[i].max_attempts

\* C14: a row with status failed stays in the table with status failed and
\* its error in every later state (so that no claim can select it again).
C14_FailedStaysFailed ==
    [][\A i \in 1..Len(jobs) :
          jobs[i].status = "failed" =>
              /\ Len(jobs') >= i
              /\ jobs'[i].status = "failed"
              /\ jobs'[i].error = jobs[i].error]_vars

\* C12: a job whose handler raises on every run, with nothing enqueued in
\* between, goes queued -> locked with attempts + 1 at each claim, goes
\* back to queued with available_at = now + 300 at each failure below the
\* cap, is claimed max_attempts times at most, and ends failed for good
\* after exactly max_attempts claims.
C12_RetryUntilCap ==
    /\ [][\A w \in Workers :
            /\ ClaimUpdate(w) =>
                  /\ jobs[1].status = "queued"
                  /\ jobs'[1].status = "locked"
                  /\ jobs'[1].attempts = jobs[1].attempts + 1
            /\ MarkFailure(w) =>
                  /\ jobs[1].status = "locked"
                  /\ jobs[1].attempts < jobs[1].max_attempts =>
                        /\ jobs'[1].status = "queued"
                        /\ jobs'[1].available_at = now + 300
                  /\ jobs[1].attempts = jobs[1].max_attempts =>
                        jobs'[1].status = "failed"]_vars
    /\ [](claims <= jobs[1].max_attempts)
    /\ <>[](/\ jobs[1].status = "failed"
            /\ jobs[1].attempts = jobs[1].max_attempts
            /\ claims = jobs[1].max_attempts)

\* A job with the default cap has failed for good at its fifth claim, four
\* retry delays after the first failure.
C12_Witness ==
    /\ jobs[1].status = "failed"
    /\ jobs[1].max_attempts = DEFAULT_MAX_ATTEMPTS
    /\ jobs[1].attempts = DEFAULT_MAX_ATTEMPTS
    /\ claims = DEFAULT_MAX_ATTEMPTS
    /\ now >= 4 * 300
    /\ jobs[1].error = NotFound

\* C15: a job whose handler raises for missing scope (no username, or a
\* games job without its archive scope) is set to failed, not to queued,
\* by the failure that follows, whatever its attempts and max_attempts.
C15_ScopeErrorTerminal ==
    [][\A w \in Workers :
          (MarkFailure(w) /\ raised[w] \in {ScopeError, GamesScopeError}) =>
              jobs'[job[w]].status = "failed"]_vars

\* C16: with two workers and three queued, available jobs whose handlers
\* succeed, no job is ever held by two workers or claimed twice, and the
\* system reaches, for good, the state where all three jobs are succeeded
\* with attempts = 1 after three claims in all.
C16_DrainExactlyOnce ==
    /\ [](\A w, v \in Workers :
            (w # v /\ pc[w] # "idle" /\ pc[v] # "idle") => job[w] # job[v])
    /\ [](\A i \in 1..Len(jobs) : jobs[i].attempts <= 1)
    /\ <>[](/\ Len(jobs) = Len(DrainUsers)
            /\ claims = Len(DrainUsers)
            /\ \A i \in 1..Len(jobs) :
                  jobs[i].status = "succeeded" /\ jobs[i].attempts = 1)

\* The last of the three jobs has just been marked succeeded by one worker
\* after the other worker completed a job of its own.
C16_Witness ==
    /\ Len(jobs) = 3
    /\ \A i \in 1..3 : jobs[i].status = "succeeded" /\ jobs[i].attempts = 1
    /\ claims = 3
    /\ last = [op |-> "success", who |-> "w2", id |-> 2]
    /\ Len(players) = 2

\* Row i after the step is a child of the profile job in row 1: a queued
\* job of the player the handler upserted, for the same username, never
\* claimed, available at the clock of the run.
ProfileChild(i, job_type, priority) ==
    /\ jobs'[i].job_type = job_type
    /\ jobs'[i].priority = priority
    /\ jobs'[i].status = "queued"
    /\ jobs'[i].attempts = 0
    /\ jobs'[i].available_at = now
    /\ jobs'[i].scope = [username |-> jobs[1].scope.username]
    /\ jobs'[i].player_id # 0
    /\ players'[jobs'[i].player_id].username = jobs[1].scope.username

\* C17: a successful run of a profile job that is the only row of the
\* queue adds exactly two rows, a stats job with priority 2 and an
\* archives job with priority 3, both queued with attempts 0 and
\* available_at = now, for the player of the profile; a run that raises
\* at its fetch adds none.
C17_ProfileFanOut ==
    [][\A w \in Workers :
          (Len(jobs) = 1 /\ jobs[1].job_type = "profile") =>
              /\ (ProcessJob(w) /\ pc'[w] = "done") =>
                    /\ Len(jobs') = 3
                    /\ jobs'[1] = jobs[1]
                    /\ ProfileChild(2, "stats", 2)
                    /\ ProfileChild(3, "archives", 3)
              /\ ProcessJobRaises(w, HttpError) =>
                    jobs' = jobs /\ players' = players]_vars

\* A profile job that failed once has succeeded at its second run, at
\* clock 300, and its two children are the only other rows.
C17_Witness ==
    /\ Len(jobs) = 3
    /\ last = [op |-> "process", who |-> "w1", id |-> 1]
    /\ jobs[1].job_type = "profile" /\ jobs[1].attempts = 2
    /\ now = 300
    /\ jobs[2].job_type = "stats" /\ jobs[2].available_at = 300
    /\ jobs[3].job_type = "archives" /\ jobs[3].player_id = 1

\* The place of a job type in the fan-out: profile, then stats and
\* archives, then games.
Rank(job_type) ==
    CASE job_type = "profile" -> 1
      [] job_type \in {"stats", "archives"} -> 2
      [] OTHER -> 3

\* The rows a step has added or changed.
Touched == {i \in 1..Len(jobs') : i > Len(jobs) \/ jobs'[i] # jobs[i]}

\* C18: a run of a stats or games handler, returning or raising, leaves
\* ingestion_jobs exactly as it was; a run of a profile handler touches
\* stats and archives rows only, a run of an archives handler games rows
\* only, so every touched row is further down the fan-out than the job
\* that ran.
C18_NoCascadeFromLeaves ==
    [][\A w \in Workers :
          (ProcessJob(w) \/ ProcessJobRaises(w, HttpError)) =>
              LET kind == jobs[job[w]].job_type
              IN  /\ kind \in {"stats", "games"} => jobs' = jobs
                  /\ kind = "profile" =>
                        \A i \in Touched :
                            jobs'[i].job_type \in {"stats", "archives"}
                  /\ kind = "archives" =>
                        \A i \in Touched : jobs'[i].job_type = "games"
                  /\ \A i \in Touched : Rank(jobs'[i].job_type) > Rank(kind)]_vars

\* A games handler has just returned, its month marked succeeded, beside
\* the other games job of the same archives run.
C18_Witness ==
    /\ last.op = "process"
    /\ pc[last.who] = "done"
    /\ jobs[last.id].job_type = "games"
    /\ \E i \in 1..Len(jobs) :
          i # last.id /\ jobs[i].job_type = "games" /\ jobs[i].status = "queued"
    /\ \E a \in 1..Len(archives) : archives[a].fetch_status = "succeeded"

\* The months of the upstream list of an archives job's username, by
\* position in the list: all of them, and the ones the month limit keeps.
Listed(w) ==
    1..Len(UpstreamArchives(current_username(players, jobs[job[w]])))

Kept(w) ==
    {n \in Listed(w) :
        ARCHIVE_MONTH_LIMIT > 0 =>
            n > Len(UpstreamArchives(current_username(players, jobs[job[w]])))
                  - ARCHIVE_MONTH_LIMIT}

\* A successful archives run of worker w, month by month over the
\* positions in S: a month that parses and had no monthly_archives row
\* gets a pending row and a queued games job with priority 5 and scope
\* username, archive_url, year, month; a month whose row existed keeps a
\* row and gets no games job touched.
ArchivesRun(w, S) ==
    LET row == jobs[job[w]]
        username == current_username(players, row)
        urls == UpstreamArchives(username)
        player_id == IF row.player_id # 0 THEN row.player_id
                     ELSE fetch_player_id_by_username(players', username)
    IN  \A n \in S :
          LET year == ArchiveYear(urls[n])
              month == ArchiveMonth(urls[n])
              had == ArchiveRow(archives, player_id, year, month) # 0
              hits == {i \in Touched :
                          /\ jobs'[i].job_type = "games"
                          /\ jobs'[i].player_id = player_id
                          /\ jobs'[i].scope.year = year
                          /\ jobs'[i].scope.month = month}
          IN  (year >= 0 /\ month >= 0) =>
                /\ ArchiveRow(archives', player_id, year, month) # 0
                /\ had => hits = {}
                /\ ~had =>
                      /\ archives'[ArchiveRow(archives', player_id, year, month)]
                            .fetch_status = "pending"
                      /\ \E i \in hits :
                            /\ hits = {i}
                            /\ i > Len(jobs)
                            /\ jobs'[i].status = "queued"
                            /\ jobs'[i].priority = 5
                            /\ jobs'[i].scope =
                                  [username |-> username, archive_url |-> urls[n],
                                   year |-> year, month |-> month]

ArchivesReturns(w) ==
    ProcessJob(w) /\ pc'[w] = "done" /\ jobs[job[w]].job_type = "archives"

\* C19, as claimed: a successful archives run gives every listed month
\* that parses a monthly_archives row, pending when new, and a games job
\* exactly when the month had no row before.
C19_GamesForEveryListedMonth ==
    [][\A w \in Workers :
          ArchivesReturns(w) =>
              /\ ArchivesRun(w, Listed(w))
              /\ Cardinality(Touched) <= Cardinality(Listed(w))]_vars

\* C19, amended: the same for the months the month limit keeps (the last
\* ARCHIVE_MONTH_LIMIT of the list); the months before them get neither a
\* row nor a games job.
C19_GamesForEveryKeptMonth ==
    [][\A w \in Workers :
          ArchivesReturns(w) =>
              /\ ArchivesRun(w, Kept(w))
              /\ Cardinality(Touched) <= Cardinality(Kept(w))
              /\ Len(archives') <= Len(archives) + Cardinality(Kept(w))]_vars

\* An archives run has just met a list of thirteen months under a limit
\* of twelve: twelve rows and twelve games jobs, none for the oldest.
C19_Witness ==
    /\ last.op = "process"
    /\ jobs[last.id].job_type = "archives"
    /\ jobs[last.id].scope.username = "carol"
    /\ Len(archives) = 12
    /\ Len(jobs) = 13
    /\ \A a \in 1..Len(archives) :
          ~(archives[a].year = 2023 /\ archives[a].month = 1)

\* The games jobs of the month of monthly_archives row a that a step adds
\* or changes.
GamesTouched(a) ==
    {i \in Touched :
        /\ jobs'[i].job_type = "games"
        /\ jobs'[i].player_id = archives[a].player_id
        /\ jobs'[i].scope.year = archives[a].year
        /\ jobs'[i].scope.month = archives[a].month}

\* C20: a monthly_archives row whose fetch status is succeeded is still
\* succeeded after every step, with the same retry count; no step adds a
\* games job for its month, and a run of the archives handler, which
\* rediscovers the month, adds or changes no games job for it at all.
C20_SucceededSticky ==
    [][\A a \in 1..Len(archives) :
          archives[a].fetch_status = "succeeded" =>
              /\ Len(archives') >= a
              /\ archives'[a].player_id = archives[a].player_id
              /\ archives'[a].year = archives[a].year
              /\ archives'[a].month = archives[a].month
              /\ archives'[a].fetch_status = "succeeded"
              /\ archives'[a].retry_count = archives[a].retry_count
              /\ \A i \in GamesTouched(a) : i <= Len(jobs)
              /\ \A w \in Workers :
                    /\ ProcessJob(w) \/ ProcessJobRaises(w, HttpError)
                    /\ jobs[job[w]].job_type = "archives"
                    => GamesTouched(a) = {}]_vars

\* The second archives job of a player has just run and returned over a
\* month that a games job had already marked succeeded: the month is
\* still succeeded and has the one games job of the first run.
C20_Witness ==
    /\ last.op = "process"
    /\ pc[last.who] = "done"
    /\ jobs[last.id].job_type = "archives"
    /\ jobs[last.id].scope.username = "Bob"
    /\ \E i \in 1..Len(jobs) :
          /\ i # last.id
          /\ jobs[i].job_type = "archives"
          /\ jobs[i].status = "succeeded"
    /\ \E a \in 1..Len(archives) :
          /\ archives[a].fetch_status = "succeeded"
          /\ archives[a].player_id =
                fetch_player_id_by_username(players, "bob")
          /\ Cardinality({i \in 1..Len(jobs) :
                            /\ jobs[i].job_type = "games"
                            /\ jobs[i].scope.year = archives[a].year
                            /\ jobs[i].scope.month = archives[a].month}) = 1

\* The job of worker w is a games job whose run has just ended without
\* finishing: the handler raised, or the process died.
GamesRunBroken(w) ==
    /\ pc[w] \in {"raised", "crashed"}
    /\ job[w] # 0
    /\ jobs[job[w]].job_type = "games"

\* C21: a monthly_archives row becomes succeeded only in the last
\* statement of a games handler that has upserted every game of the body
\* it fetched; a games run that raises or dies at a game leaves the row
\* not succeeded, and the job goes back to queued (or to failed, its
\* attempts used up) so that it is run again from the first game.
C21_SucceededOnlyAfterWholeBatch ==
    /\ [][\A a \in 1..Len(archives) :
            (archives[a].fetch_status # "succeeded"
             /\ archives'[a].fetch_status = "succeeded") =>
                \E w \in Workers :
                    /\ GamesFinish(w)
                    /\ h[w].n = Len(h[w].body) + 1
                    /\ \A n \in 1..Len(h[w].body) :
                          /\ GameRow(games, h[w].body[n].url) # 0
                          /\ games[GameRow(games, h[w].body[n].url)].archive_id = a]_vars
    /\ [][\A w \in Workers :
            (AtAGame(w) /\ pc'[w] \in {"raised", "crashed"}) =>
                \A a \in 1..Len(archives') :
                    (/\ archives'[a].player_id = h[w].player_id
                     /\ archives'[a].year = jobs[job[w]].scope.year
                     /\ archives'[a].month = jobs[job[w]].scope.month)
                    => archives'[a].fetch_status # "succeeded"]_vars
    /\ \A w \in Workers :
          GamesRunBroken(w) ~> (~GamesRunBroken(w) \/ jobs[job[w]].status # "locked")

\* C22: when a games handler returns, every game of the body it fetched
\* has a games row, the white and the black username of every such game
\* have a players row, and the row of the game refers to these two
\* players: neither reference is null.
C22_GamesAndOpponentsStored ==
    [][\A w \in Workers :
          GamesFinish(w) =>
              /\ h[w].body = UpstreamGames(jobs[job[w]].scope.archive_url)
              /\ \A n \in 1..Len(h[w].body) :
                    LET game == h[w].body[n]
                        row == GameRow(games', game.url)
                        white_id == fetch_player_id_by_username(players', game.white)
                        black_id == fetch_player_id_by_username(players', game.black)
                    IN  /\ row # 0
                        /\ white_id # 0
                        /\ black_id # 0
                        /\ games'[row].white_player_id = white_id
                        /\ games'[row].black_player_id = black_id]_vars

\* A games handler has just returned from a body of two games that named
\* two players the database did not hold: both games and all three
\* players are stored.
C22_Witness ==
    /\ last.op = "finish"
    /\ pc[last.who] = "done"
    /\ Len(games) = 2
    /\ Len(players) = 3
    /\ \E i \in 1..Len(fetch_log) : fetch_log[i].url = ProfileUrl("carol")

\* The id ensure_player has just returned to the handler of worker w.
Ensured(w) ==
    CASE h[w].side = "owner" -> h'[w].player_id
      [] h[w].side = "white" -> h'[w].white_id
      [] OTHER -> h'[w].black_id

\* C23: no two players rows share a platform player id or a lowercase
\* username, in any state; and an ensure_player that stores a player,
\* also when another handler stores the same player before or after it,
\* leaves one row for that platform id and returns the id of that row.
C23_OnePlayerRowPerIdentity ==
    /\ [](\A i, j \in 1..Len(players) :
            i # j =>
                /\ players[i].chesscom_player_id # players[j].chesscom_player_id
                /\ players[i].username # players[j].username)
    /\ [][\A w \in Workers :
            EnsureStore(w) =>
                LET rows == {i \in 1..Len(players') :
                               players'[i].chesscom_player_id =
                                   UpstreamProfile(h[w].target).player_id}
                IN  /\ Cardinality(rows) = 1
                    /\ rows = {Ensured(w)}
                    /\ rows = {fetch_player_id_by_username(players', h[w].target)}
                    /\ Ensured(w) \in DOMAIN ingestion']_vars

\* Both workers have looked the same opponent up, found no row and
\* fetched the profile; one has just stored the player and the other is
\* about to.
C23_Witness ==
    /\ last.op = "ensured"
    /\ \E v \in Workers \ {last.who} :
          /\ h[v].step = "ensured"
          /\ h[v].target = "alice"
          /\ fetch_player_id_by_username(players, "alice") # 0
          /\ Cardinality({i \in 1..Len(fetch_log) :
                            fetch_log[i].url = ProfileUrl("alice")}) = 2

\* The monthly_archives rows, and the games jobs, of a month of a player.
MonthRows(player_id, year, month) ==
    {a \in 1..Len(archives) :
        /\ archives[a].player_id = player_id
        /\ archives[a].year = year
        /\ archives[a].month = month}

MonthJobs(player_id, year, month) ==
    {i \in 1..Len(jobs) :
        /\ jobs[i].job_type = "games"
        /\ jobs[i].player_id = player_id
        /\ jobs[i].scope.year = year
        /\ jobs[i].scope.month = month}

\* C24: with two archives jobs of one player run by two workers at the
\* same time, no state holds two monthly_archives rows or two games jobs
\* for one (player, year, month), and once both jobs have succeeded every
\* month of the list that parses has exactly one row and one games job.
C24_OneRowAndJobPerMonth ==
    /\ \A a, b \in 1..Len(archives) :
          a # b => <<archives[a].player_id, archives[a].year, archives[a].month>>
                   # <<archives[b].player_id, archives[b].year, archives[b].month>>
    /\ \A i \in 1..Len(jobs) :
          jobs[i].job_type = "games" =>
              MonthJobs(jobs[i].player_id, jobs[i].scope.year,
                        jobs[i].scope.month) = {i}
    /\ (\A i \in 1..Len(jobs) :
          jobs[i].job_type = "archives" => jobs[i].status = "succeeded")
       => LET urls == LimitArchives(UpstreamArchives("bob"))
              player_id == fetch_player_id_by_username(players, "bob")
          IN  \A n \in 1..Len(urls) :
                (ArchiveYear(urls[n]) >= 0 /\ ArchiveMonth(urls[n]) >= 0) =>
                    /\ Cardinality(MonthRows(player_id, ArchiveYear(urls[n]),
                                             ArchiveMonth(urls[n]))) = 1
                    /\ Cardinality(MonthJobs(player_id, ArchiveYear(urls[n]),
                                             ArchiveMonth(urls[n]))) = 1

\* Both archives handlers are at the loop over the same list: one has
\* upserted both months in its open transaction and enqueued their games
\* jobs, the other stands at the first month.
C24_Witness ==
    \E w, v \in Workers :
        /\ w # v
        /\ h[w].step = "scan"
        /\ h[v].step = "scan"
        /\ h[w].player_id = h[v].player_id
        /\ Len(h[w].pending) = 2
        /\ h[v].n = 1
        /\ Cardinality({i \in 1..Len(jobs) : jobs[i].job_type = "games"}) = 2

\* A handler step of worker w that has made its HTTP call: the step is
\* one of the fetch steps and the job named what to fetch.
Called(w, outcome, log_ok) ==
    /\ HandlerStep(w, outcome, log_ok)
    /\ raised'[w] \notin {ScopeError, GamesScopeError}

\* C25: every HTTP call of a handler, through fetch_profile, fetch_stats,
\* fetch_archives or fetch_archive_games, appends exactly one fetch_log
\* row for the url called, however the call ends: HTTP 200, another
\* status, a network error or a body that does not parse.
C25_EveryCallLogged ==
    [][\A w \in Workers : \A outcome \in Outcomes :
          Called(w, outcome, TRUE) =>
              /\ Len(fetch_log') = Len(fetch_log) + 1
              /\ SubSeq(fetch_log', 1, Len(fetch_log)) = fetch_log]_vars

\* C26: a fetch_log insert that fails after an HTTP 200 with valid data
\* does not stop the handler: the step raises nothing, the handler goes
\* on to its upserts, and no job is marked failed with the insert's
\* error.
C26_LogWriteBestEffort ==
    /\ [][\A w \in Workers :
            Called(w, "200", FALSE) =>
                /\ raised'[w] = NoError
                /\ pc'[w] = "claimed"
                /\ h'[w] # NoHandler]_vars
    /\ [][\A w \in Workers : MarkFailure(w) => raised[w] # LogError]_vars

\* The player a profile, stats or archives job of worker w is for, when
\* the player is known and has its ingestion-state row; 0 otherwise.
RefreshedPlayer(w) ==
    IF job[w] = 0 \/ jobs[job[w]].job_type \notin {"profile", "stats", "archives"}
    THEN 0
    ELSE LET player_id == KnownPlayerId(players, jobs[job[w]],
                              current_username(players, jobs[job[w]]))
         IN  IF player_id \in DOMAIN ingestion THEN player_id ELSE 0

\* C27: when a profile, stats or archives job of a known player has
\* failed, the player's ingestion-state row has status error and holds
\* the exception's message; when such a job has succeeded, the status is
\* idle.
C27_ErrorRecordedInState ==
    /\ [][\A w \in Workers :
            (MarkFailure(w) /\ RefreshedPlayer(w) # 0) =>
                /\ ingestion'[RefreshedPlayer(w)].status = "error"
                /\ ingestion'[RefreshedPlayer(w)].error = raised[w]]_vars
    /\ [][\A w \in Workers :
            (MarkSuccess(w) /\ RefreshedPlayer(w) # 0) =>
                ingestion'[RefreshedPlayer(w)].status = "idle"]_vars

\* The step taken is the ingestion-state upsert of a successful refresh
\* of the given kind for player p.
Refreshed(p, kind) ==
    \E w \in Workers :
        \/ /\ kind = "profile"
           /\ ProfileStore(w)
           /\ p = fetch_player_id_by_username(players', h[w].username)
        \/ /\ kind = "stats"
           /\ StatsStore(w)
           /\ p = h[w].player_id
        \/ /\ kind = "archives"
           /\ ArchivesCommit(w)
           /\ p = h[w].player_id

\* The last-fetch and next-fetch columns of a kind of refresh, and its
\* cadence.
LastColumn(kind) ==
    CASE kind = "profile" -> "last_profile_fetch"
      [] kind = "stats" -> "last_stats_fetch"
      [] OTHER -> "last_archives_scan"

NextColumn(kind) ==
    CASE kind = "profile" -> "next_profile_fetch"
      [] kind = "stats" -> "next_stats_fetch"
      [] OTHER -> "next_archives_scan"

Cadence(kind) ==
    CASE kind = "profile" -> PROFILE_REFRESH_SECONDS
      [] kind = "stats" -> STATS_REFRESH_SECONDS
      [] OTHER -> ARCHIVE_REFRESH_SECONDS

\* C28: in every step, the ingestion-state row of a player whose profile,
\* stats or archives refresh has just succeeded has that kind's
\* last-fetch timestamp at now and its next-fetch timestamp at now plus
\* the kind's cadence, and every other timestamp of every row is what it
\* was before the step (NULL in a row the step created); and an upsert
\* with no touch of any stored row changes none of its timestamps.
C28_OnlyTouchedTimestampsChange ==
    /\ [][\A p \in DOMAIN ingestion' :
            \A kind \in {"profile", "stats", "archives"} :
                LET before(c) == IF p \in DOMAIN ingestion
                                 THEN ingestion[p][c] ELSE NULL
                IN  IF Refreshed(p, kind)
                    THEN /\ ingestion'[p][LastColumn(kind)] = now
                         /\ ingestion'[p][NextColumn(kind)] = now + Cadence(kind)
                    ELSE /\ ingestion'[p][LastColumn(kind)] =
                                before(LastColumn(kind))
                         /\ ingestion'[p][NextColumn(kind)] =
                                before(NextColumn(kind))]_vars
    /\ [](\A p \in DOMAIN ingestion :
            \A c \in TimestampColumns :
                upsert_player_ingestion_state(ingestion, now, p, FALSE, FALSE,
                                              FALSE, "idle", NoError)[p][c]
                    = ingestion[p][c])

\* The stats refresh of a player has just succeeded at a later clock
\* than the player's profile refresh, whose timestamps the row still
\* holds.
C28_Witness ==
    /\ last.op = "store"
    /\ jobs[last.id].job_type = "stats"
    /\ \E p \in DOMAIN ingestion :
          /\ ingestion[p].last_stats_fetch = now
          /\ ingestion[p].next_stats_fetch = now + STATS_REFRESH_SECONDS
          /\ ingestion[p].last_profile_fetch # NULL
          /\ ingestion[p].last_profile_fetch < now
          /\ ingestion[p].next_profile_fetch =
                 ingestion[p].last_profile_fetch + PROFILE_REFRESH_SECONDS
          /\ ingestion[p].last_archives_scan = NULL

\* C29: in every state, also between the transactions of a handler and
\* after a handler that raised or whose process died, every players row
\* has its player_ingestion_state row.
C29_StateRowWithEveryPlayer ==
    \A player_id \in 1..Len(players) : player_id \in DOMAIN ingestion

\* The tables after the handler of row i is run once more, at the present
\* clock and with the upstream answering as before.
Rerun(i) ==
    process_job([jobs |-> jobs, players |-> players, archives |-> archives,
                 exc |-> NoError], now, jobs[i])

\* The columns of ingestion_jobs that two states are compared on.
JobColumns(js) ==
    [k \in 1..Len(js) |->
        [dedupe_key |-> js[k].dedupe_key, job_type |-> js[k].job_type,
         status |-> js[k].status, priority |-> js[k].priority,
         attempts |-> js[k].attempts]]

\* C30: running the handler of a job that has succeeded once more, with
\* the same upstream responses, leaves players, monthly_archives and
\* ingestion_jobs (rows, statuses, priorities, attempts) as they are, also
\* when the children the first run enqueued have been claimed or have
\* finished since.
C30_RerunChangesNothing ==
    \A i \in 1..Len(jobs) :
        jobs[i].status = "succeeded" =>
            /\ Rerun(i).exc = NoError
            /\ Rerun(i).players = players
            /\ Rerun(i).archives = archives
            /\ JobColumns(Rerun(i).jobs) = JobColumns(jobs)

\* C31: the job a dead worker held stays locked in every later step, and
\* no other worker comes to hold it.
C31_DeadWorkersJobStaysLocked ==
    [][\A w \in Workers :
          pc[w] = "crashed" =>
              /\ jobs'[job[w]].status = "locked"
              /\ \A v \in Workers \ {w} :
                    job'[v] = job[w] => job[v] = job[w]]_vars

\* C32: a successful profile, stats or archives refresh of a player comes
\* no sooner than the kind's cadence after the player's previous
\* successful refresh of that kind.
C32_RefreshesCadenceApart ==
    [][\A p \in DOMAIN ingestion :
          \A kind \in {"profile", "stats", "archives"} :
              (Refreshed(p, kind) /\ ingestion[p][LastColumn(kind)] # NULL) =>
                  now >= ingestion[p][LastColumn(kind)] + Cadence(kind)]_vars

\* C33: a one-shot worker claims at most once: no worker returns to the
\* start of the loop, so there are never more claims than workers that
\* have left it; a worker that finds no eligible job exits and changes no
\* table; a worker that has claimed a job exits only by marking that job
\* succeeded, or queued or failed with the handler's error; and a worker
\* that has exited takes no further step.
C33_OneShotClaimsOnce ==
    /\ [](claims <= Cardinality({w \in Workers : pc[w] # "idle"}))
    /\ [][\A w \in Workers :
            /\ pc'[w] = "idle" => pc[w] = "idle"
            /\ pc[w] = "exited" => (pc'[w] = "exited" /\ job'[w] = job[w])
            /\ (pc[w] # "exited" /\ pc'[w] = "exited") =>
                  \/ /\ pc[w] = "idle"
                     /\ job[w] = 0
                     /\ Visible(jobs, now, RowLocked) = {}
                     /\ UNCHANGED <<jobs, players, archives, side>>
                  \/ /\ pc[w] = "done"
                     /\ jobs[job[w]].attempts >= 1
                     /\ jobs'[job[w]].status = "succeeded"
                  \/ /\ pc[w] = "raised"
                     /\ jobs[job[w]].attempts >= 1
                     /\ jobs'[job[w]].status \in {"queued", "failed"}
                     /\ jobs'[job[w]].error = Truncate(raised[w])]_vars

\* A one-shot worker has processed its job and exited while another job
\* is queued and available, and the other worker has exited on a queue
\* with no eligible job.
C33_Witness ==
    /\ pc["w1"] = "exited"
    /\ job["w1"] # 0
    /\ jobs[job["w1"]].status = "succeeded"
    /\ Visible(jobs, now, RowLocked) # {}
    /\ pc["w2"] = "exited"
    /\ job["w2"] = 0
    /\ claims = 1

\* C34: a handler that raises does not end the loop of its worker: the
\* worker's next step stores the error, cut to its first 500 characters,
\* on the job, takes the job out of locked (queued, or failed at the
\* attempt cap) and puts the worker back at the start of the loop; and in
\* every state each locked row is the one job of a worker that is inside
\* a handler or between the handler and its mark (or that died there), so
\* a worker about to claim holds no locked job.
C34_FailureKeepsLoopRunning ==
    /\ [][\A w \in Workers :
            (pc[w] = "raised" /\ pc'[w] # "raised") =>
                /\ pc'[w] = "idle"
                /\ jobs'[job[w]].error = Truncate(raised[w])
                /\ jobs'[job[w]].status \in {"queued", "failed"}]_vars
    /\ [](\A i \in 1..Len(jobs) :
            jobs[i].status = "locked" =>
                \E w \in Workers :
                    /\ job[w] = i
                    /\ pc[w] \in {"claimed", "done", "raised", "crashed"})

\* The worker has claimed a second job after the handler of its first
\* raised on a response that was not JSON: the first job is queued again
\* with that error and the second is the only locked row.
C34_Witness ==
    /\ last.op = "claim"
    /\ \E i \in 1..Len(jobs) :
          /\ i # last.id
          /\ jobs[i].status = "queued"
          /\ jobs[i].error = DecodeError
    /\ {i \in 1..Len(jobs) : jobs[i].status = "locked"} = {last.id}

\* C35: the games table never holds two rows with one URL; no upsert
\* moves or removes a row or makes a stored white or black player
\* reference null; and after an upsert of a URL its row holds, on each
\* side, the id passed when that is not null and otherwise the reference
\* stored before (null in a new row), all other rows being as they were.
C35_PlayerReferencesKept ==
    /\ [](\A i, k \in 1..Len(games) :
            games[i].url = games[k].url => i = k)
    /\ [][/\ Len(games') >= Len(games)
          /\ \A i \in 1..Len(games) :
                /\ games'[i].url = games[i].url
                /\ games[i].white_player_id # 0 => games'[i].white_player_id # 0
                /\ games[i].black_player_id # 0 => games'[i].black_player_id # 0]_vars
    /\ [][\A url \in GameUrls, white_player_id \in GamePlayerIds,
            black_player_id \in GamePlayerIds :
            UpsertGame(url, white_player_id, black_player_id) =>
                LET was == GameRow(games, url)
                    row == GameRow(games', url)
                IN  IF url = <<>>
                    THEN games' = games
                    ELSE /\ row # 0
                         /\ row = IF was # 0 THEN was ELSE Len(games) + 1
                         /\ Len(games') = IF was # 0 THEN Len(games)
                                          ELSE Len(games) + 1
                         /\ games'[row].white_player_id =
                              IF white_player_id # 0 THEN white_player_id
                              ELSE IF was # 0 THEN games[was].white_player_id
                              ELSE 0
                         /\ games'[row].black_player_id =
                              IF black_player_id # 0 THEN black_player_id
                              ELSE IF was # 0 THEN games[was].black_player_id
                              ELSE 0
                         /\ \A i \in 1..Len(games) :
                              i # row => games'[i] = games[i]]_vars

\* The last upsert hit a stored row, passed no white player and another
\* black player: the row still has its white reference and has the new
\* black one; the table holds both URLs.
C35_Witness ==
    /\ last.op = "upsert_game"
    /\ last.id # 0
    /\ last.white = 0
    /\ last.black = 2
    /\ games[last.id].white_player_id = 1
    /\ games[last.id].black_player_id = 2
    /\ Len(games) = 2

\* C36: a job that _mark_job_failure has returned to queued at clock t is
\* not claimed before t + 300: the failure sets available_at to t + 300,
\* no step makes the available_at of a row that is queued with an error
\* earlier while it stays queued, and a claim selects only a row whose
\* available_at has come.
C36_BackoffBeforeRetry ==
    /\ [][\A w \in Workers :
            (MarkFailure(w) /\ jobs'[job[w]].status = "queued") =>
                jobs'[job[w]].available_at = now + retry_delay]_vars
    /\ [][\A i \in 1..Len(jobs) :
            (/\ jobs[i].status = "queued"
             /\ jobs[i].error # NoError
             /\ jobs'[i].status = "queued") =>
                jobs'[i].available_at >= jobs[i].available_at]_vars
    /\ [][\A w \in Workers :
            ClaimSelect(w) => jobs[job'[w]].available_at <= now]_vars

\* C37: in every state the monthly_archives row of each queued games job
\* is committed, and no games handler raises for a missing archive row.
C37_ArchiveRowBeforeGamesJob ==
    /\ \A i \in 1..Len(jobs) :
          (jobs[i].job_type = "games" /\ jobs[i].status = "queued") =>
              ArchiveRow(archives, jobs[i].player_id, jobs[i].scope.year,
                         jobs[i].scope.month) # 0
    /\ \A w \in Workers : raised[w] # ArchiveMissing

\* The jobs of a type for alice, and the fetch_log rows of answered calls
\* of a URL.
JobsOfType(job_type) ==
    {i \in 1..Len(jobs) :
        /\ jobs[i].job_type = job_type
        /\ jobs[i].scope.username = "alice"}

Answered(url) ==
    {k \in 1..Len(fetch_log) :
        fetch_log[k].url = url /\ fetch_log[k].status_code = 200}

\* C38: once the profile job of a seed has succeeded, the queue holds one
\* profile job, two stats jobs and two archives jobs for the username:
\* the seed's without a player id and the profile handler's with the id
\* of the player, under different dedup keys; and each stats or archives
\* job that has succeeded has had its own answered call of the endpoint.
C38_SeedAndCascadeJobsDiffer ==
    (Len(jobs) >= 1 /\ jobs[1].job_type = "profile"
                    /\ jobs[1].status = "succeeded") =>
        /\ Cardinality(JobsOfType("profile")) = 1
        /\ \A job_type \in {"stats", "archives"} :
              /\ Cardinality(JobsOfType(job_type)) = 2
              /\ {jobs[i].player_id : i \in JobsOfType(job_type)} =
                     {0, fetch_player_id_by_username(players, "alice")}
              /\ Cardinality({jobs[i].dedupe_key : i \in JobsOfType(job_type)})
                     = 2
        /\ Cardinality(Answered(StatsUrl("alice"))) >=
               Cardinality({i \in JobsOfType("stats") :
                               jobs[i].status = "succeeded"})
        /\ Cardinality(Answered(ArchivesUrl("alice"))) >=
               Cardinality({i \in JobsOfType("archives") :
                               jobs[i].status = "succeeded"})

\* The profile job and both stats jobs of the seed have succeeded, and
\* the stats endpoint has been called twice.
C38_Witness ==
    /\ Len(jobs) = 5
    /\ jobs[1].status = "succeeded"
    /\ \A i \in JobsOfType("stats") : jobs[i].status = "succeeded"
    /\ Cardinality(JobsOfType("stats")) = 2
    /\ Cardinality(Answered(StatsUrl("alice"))) = 2

\* The pipeline is at rest: no worker holds a job and no job is queued or
\* locked, so that no claim finds a row and no handler enqueues one.
PipelineAtRest ==
    /\ \A w \in Crew : pc[w] = "idle"
    /\ \A i \in 1..Len(jobs) : jobs[i].status \notin {"queued", "locked"}

\* C39: after a seed, with workers looping under fair scheduling, no
\* worker dying and the upstream answering every call, the pipeline
\* ends with every job succeeded: it never comes to rest, for good, with
\* a job that is not succeeded.
C39_PipelineCompletes ==
    PipelineAtRest => \A i \in 1..Len(jobs) : jobs[i].status = "succeeded"

\* The games jobs enqueued for the month of a monthly_archives row.
GamesJobsOf(a) ==
    {i \in JobsOfType("games") :
        /\ jobs[i].player_id = archives[a].player_id
        /\ jobs[i].scope.year = archives[a].year
        /\ jobs[i].scope.month = archives[a].month}

\* C40: every monthly_archives row with status pending has a games job
\* for its month that is queued or locked.
C40_PendingRowHasLiveJob ==
    \A a \in 1..Len(archives) :
        archives[a].fetch_status = "pending" =>
            \E i \in GamesJobsOf(a) : jobs[i].status \in {"queued", "locked"}

====
